---------------------------- MODULE Spec2Model ----------------------------
(***************************************************************************)
(* Model of the action decision engine of aiwolf-nlp-agent: the response   *)
(* validator (_extract_candidate_name), the free-text sanitizer            *)
(* (_sanitize_free_text), the fallback engine, the LLM pipeline            *)
(* (GeminiClient.generate, Agent._call_llm) and the timeout dispatcher.    *)
(*                                                                         *)
(* A Python str is a sequence of one-character strings.  A character TLC   *)
(* cannot read from a string literal is written by its code point, e.g.    *)
(* "U+30DF" is the single character KATAKANA LETTER MI.                    *)
(***************************************************************************)
EXTENDS Integers, Sequences, FiniteSets, TLC

VARIABLES
    \* one call of _extract_candidate_name: its arguments, its position, its result
    exResponse, exCandidates, exPc, exResult

exVars == <<exResponse, exCandidates, exPc, exResult>>

VARIABLES
    \* the agent instance a handler runs on: self.role, self.day, self.info,
    \* self.request, self.setting, self.game_name
    role, day, info, request, setting, game_name,
    \* its histories
    talk_history, whisper_history, divine_results, medium_results,
    executed_agents, attacked_agents, vote_history

VARIABLES
    \* one call of _sanitize_free_text: its arguments, its position, its outcome
    txText, txAction, txPc, txResult

VARIABLES
    \* one call of a targeted handler (vote, divine, guard, attack): the
    \* handler, what _call_llm produced, its position, its result
    tgHandler, tgLlm, tgPc, tgResult

VARIABLES
    \* handle_game_session: config["agent"]["kill_on_timeout"], the number of
    \* agent instances created so far (0: agent is None), the position of the
    \* loop, the packet in hand, the number of packets received, the value
    \* agent.action() returned, what was sent to the server
    kill_on_timeout, agent_no, loopPc, packet, received, req, sent,
    \* one record per call of the timeout wrapper (its thread and its res
    \* cell), and whether is_alive() was true in the latest call
    calls, timedOut,
    \* the exception that ended handle_game_session, if one did
    raised

VARIABLES
    \* a sequence of _fallback_talk_like calls on one agent: the attribute
    \* recent_fallback_talks (None while no code has assigned it) and the
    \* kind and outcome of each call so far
    recent_fallback_talks, fbLog

VARIABLES
    \* the LLM pipeline of one agent: whether GOOGLE_API_KEY is set,
    \* config["llm"], whether Agent.__init__ returned an agent, its
    \* llm_enabled, the max_retries of its llm_client (None: no client)
    api_key, llm_config, llmPc, llm_enabled, llm_client,
    \* one handler call: the handler, generate's attempt and last_error, the
    \* outcome of each attempt, the delays slept, what generate did, what
    \* _call_llm returned and what the handler did
    llmHandler, attempt, last_error, tried, slept, generated, llmResponse, llmResult

stateVars == <<day, divine_results, medium_results, executed_agents, attacked_agents, vote_history>>

packetVars == <<request, info, setting, game_name, talk_history, whisper_history>>

agentVars == <<role, stateVars, packetVars>>

txVars == <<txText, txAction, txPc, txResult>>

tgVars == <<tgHandler, tgLlm, tgPc, tgResult>>

loopVars == <<kill_on_timeout, agent_no, loopPc, packet, received, req, sent, calls, timedOut,
              raised>>

fbVars == <<recent_fallback_talks, fbLog>>

llmVars == <<api_key, llm_config, llmPc, llm_enabled, llm_client, llmHandler, attempt,
             last_error, tried, slept, generated, llmResponse, llmResult>>

vars == <<exVars, agentVars, txVars, tgVars, loopVars, fbVars, llmVars>>

(***************************************************************************)
(* Characters                                                              *)
(***************************************************************************)
AsciiUpper ==
    {"A","B","C","D","E","F","G","H","I","J","K","L","M",
     "N","O","P","Q","R","S","T","U","V","W","X","Y","Z"}

AsciiLower ==
    {"a","b","c","d","e","f","g","h","i","j","k","l","m",
     "n","o","p","q","r","s","t","u","v","w","x","y","z"}

AsciiDigit == {"0","1","2","3","4","5","6","7","8","9"}

\* [A-Za-z0-9] of the boundary pattern
AsciiAlnum == AsciiUpper \cup AsciiLower \cup AsciiDigit

\* the other ASCII characters the model's texts use
AsciiOther == {" ", "\n", "\r", "\t", "\"", "'", "@", ".", ",", ":", "-", "_", "[", "]"}

\* U+FF0C FULLWIDTH COMMA, U+3001 IDEOGRAPHIC COMMA,
\* U+30DF/U+30CA/U+30C8 katakana MI/NA/TO, U+3042 hiragana A
NonAscii == {"U+FF0C", "U+3001", "U+30DF", "U+30CA", "U+30C8", "U+3042"}

\* str.isascii() of one character
IsAsciiChar(c) == c \in AsciiAlnum \cup AsciiOther

\* str.isalnum() of one character: the katakana and hiragana letters are
\* alphanumeric for Python, the two commas are not
IsAlnumChar(c) == c \in AsciiAlnum \cup {"U+30DF", "U+30CA", "U+30C8", "U+3042"}

\* \s of the re module, and the default set of str.strip()
IsSpace(c) == c \in {" ", "\n", "\r", "\t"}

\* \w of the re module (str pattern): alphanumeric or underscore
IsWordChar(c) == IsAlnumChar(c) \/ c = "_"

(***************************************************************************)
(* str operations                                                          *)
(***************************************************************************)
\* s.replace(a, b) for one-character a and b
ReplaceChar(s, a, b) == [i \in 1..Len(s) |-> IF s[i] = a THEN b ELSE s[i]]

\* s.replace(a, "") for one-character a
RemoveChar(s, a) == SelectSeq(s, LAMBDA c : c # a)

\* s.strip(chars): drop the leading and trailing characters that are in D
StripSet(s, D) ==
    LET keep == {i \in 1..Len(s) : s[i] \notin D}
    IN  IF keep = {} THEN <<>>
        ELSE LET lo == CHOOSE i \in keep : \A j \in keep : i <= j
                 hi == CHOOSE i \in keep : \A j \in keep : j <= i
             IN  SubSeq(s, lo, hi)

\* s.strip()
Strip(s) == StripSet(s, {" ", "\n", "\r", "\t"})

RECURSIVE CollapseSpaces(_)
\* re.sub(r"\s+", " ", s)
CollapseSpaces(s) ==
    IF s = <<>> THEN <<>>
    ELSE IF IsSpace(s[1])
         THEN IF Len(s) > 1 /\ IsSpace(s[2])
              THEN CollapseSpaces(Tail(s))
              ELSE <<" ">> \o CollapseSpaces(Tail(s))
         ELSE <<s[1]>> \o CollapseSpaces(Tail(s))

\* s[i:i+len(n)] == n, 1-based
OccursAt(n, s, i) ==
    /\ i >= 1
    /\ i + Len(n) - 1 <= Len(s)
    /\ SubSeq(s, i, i + Len(n) - 1) = n

\* n in s
Contains(n, s) == \E i \in 1..(Len(s) + 1) : OccursAt(n, s, i)

\* s.startswith(p)
StartsWith(s, p) == OccursAt(p, s, 1)

\* x in lst
InList(x, lst) == \E i \in 1..Len(lst) : lst[i] = x

RECURSIVE Concat(_)
\* "".join(parts)
Concat(parts) ==
    IF parts = <<>> THEN <<>> ELSE parts[1] \o Concat(Tail(parts))

(***************************************************************************)
(* Optional values: Python's None against a str                            *)
(***************************************************************************)
None == [some |-> FALSE, v |-> <<>>]

Some(x) == [some |-> TRUE, v |-> x]

(***************************************************************************)
(* In-game names (keys of info.status_map) used by the model               *)
(***************************************************************************)
Alice == <<"A", "l", "i", "c", "e">>

Bob == <<"B", "o", "b">>

Mina == <<"M", "i", "n", "a">>

Minato == <<"M", "i", "n", "a", "t", "o">>

\* the katakana names MI-NA and MI-NA-TO
KanaMina == <<"U+30DF", "U+30CA">>

KanaMinato == <<"U+30DF", "U+30CA", "U+30C8">>

\* a bracket-decorated identifier
Agent01 == <<"A", "g", "e", "n", "t", "[", "0", "1", "]">>

(***************************************************************************)
(* Agent._extract_candidate_name                                           *)
(***************************************************************************)
\* the three normalisation statements that produce `cleaned`
ExtractCleaned(response) ==
    LET c1 == Strip(ReplaceChar(ReplaceChar(Strip(response), "\n", " "), "\r", " "))
        c2 == StripSet(c1, {"\"", "'"})
    IN  Strip(CollapseSpaces(c2))

RECURSIVE SortedByLenDesc(_)
\* sorted(candidates, key=len, reverse=True): stable, so names of equal
\* length keep their order in the list
SortedByLenDesc(lst) ==
    IF lst = <<>> THEN <<>>
    ELSE LET rest == SortedByLenDesc(Tail(lst))
             x    == lst[1]
             k    == Cardinality({i \in 1..Len(rest) : Len(rest[i]) > Len(x)})
         IN  SubSeq(rest, 1, k) \o <<x>> \o SubSeq(rest, k + 1, Len(rest))

\* mutant: no name gets the boundary protection
IsBoundaryProtected_Never(name) == FALSE

\* name.isascii() and name.replace("[", "").replace("]", "").isalnum()
IsBoundaryProtected(name) ==
    LET bare == RemoveChar(RemoveChar(name, "["), "]")
    IN  /\ \A i \in 1..Len(name) : IsAsciiChar(name[i])
        /\ bare # <<>>
        /\ \A i \in 1..Len(bare) : IsAlnumChar(bare[i])

\* re.search(rf"(?<![A-Za-z0-9]){re.escape(name)}(?![A-Za-z0-9])", cleaned)
BoundarySearch(name, cleaned) ==
    \E i \in 1..Len(cleaned) :
        /\ OccursAt(name, cleaned, i)
        /\ (i = 1 \/ cleaned[i - 1] \notin AsciiAlnum)
        /\ (i + Len(name) > Len(cleaned) \/ cleaned[i + Len(name)] \notin AsciiAlnum)

\* the test the loop body applies to one name
NameHits(name, cleaned) ==
    /\ Contains(name, cleaned)
    /\ IsBoundaryProtected(name) => BoundarySearch(name, cleaned)

RECURSIVE SearchNames(_, _)
\* the for loop over the sorted candidates: the first name that hits
SearchNames(names, cleaned) ==
    IF names = <<>> THEN None
    ELSE IF NameHits(names[1], cleaned) THEN Some(names[1])
         ELSE SearchNames(Tail(names), cleaned)

\* mutant: the candidates are visited in list order, unsorted
SearchOrder_Unsorted(candidates) == candidates

\* the order in which the loop visits the candidates
SearchOrder(candidates) == SortedByLenDesc(candidates)

\* mutant: any text with a leading @ is taken as a mention
MentionHit_Unchecked(cleaned, candidates) == StartsWith(cleaned, <<"@">>)

\* the leading-@ rule
MentionHit(cleaned, candidates) ==
    /\ StartsWith(cleaned, <<"@">>)
    /\ InList(Tail(cleaned), candidates)

_extract_candidate_name(response, candidates) ==
    IF candidates = <<>> THEN None
    ELSE LET cleaned == ExtractCleaned(response)
         IN  IF InList(cleaned, candidates) THEN Some(cleaned)
             ELSE IF MentionHit(cleaned, candidates) THEN Some(Tail(cleaned))
             ELSE SearchNames(SearchOrder(candidates), cleaned)

(***************************************************************************)
(* The agent instance                                                      *)
(***************************************************************************)
\* Role of aiwolf_nlp_common; ROLE_TO_AGENT_CLS maps each to its class
Roles == {"WEREWOLF", "POSSESSED", "SEER", "BODYGUARD", "VILLAGER", "MEDIUM"}

\* self.info is None
NoInfo ==
    [present |-> FALSE, agent |-> <<>>, status_map |-> <<>>, role_map |-> <<>>,
     day |-> 0, divine_result |-> None, medium_result |-> None,
     executed_agent |-> None, attacked_agent |-> None, vote_list |-> <<>>]

\* an Info: the agent's in-game name, the status map and the role map, each
\* map as its items in insertion order
MkInfo(agent, status_map, role_map) ==
    [NoInfo EXCEPT !.present = TRUE, !.agent = agent,
                   !.status_map = status_map, !.role_map = role_map]

\* self.setting is None
NoSetting == [present |-> FALSE, timeout_action |-> 0, allow_self_vote |-> FALSE]

\* a Setting: setting.timeout.action in milliseconds and setting.vote.allow_self_vote
MkSetting(timeout_action, allow_self_vote) ==
    [present |-> TRUE, timeout_action |-> timeout_action, allow_self_vote |-> allow_self_vote]

\* a Packet: its request, info, setting and the two history deltas
MkPacket(request_, info_, setting_, talks, whispers) ==
    [request |-> request_, info |-> info_, setting |-> setting_,
     talk_history |-> talks, whisper_history |-> whispers]

\* no packet received yet
NoPacket == MkPacket("NONE", NoInfo, NoSetting, <<>>, <<>>)

\* list(m.keys()) of a map given by its items
Keys(m) == [i \in 1..Len(m) |-> m[i].k]

\* what a call produces: a returned str or a raised exception
Return(x) == [kind |-> "return", v |-> x, exc |-> ""]

Raise(e) == [kind |-> "raise", v |-> <<>>, exc |-> e]

(***************************************************************************)
(* Fallback sentences                                                      *)
(***************************************************************************)
\* agent.py, Agent._fallback_talk_like (candidates)
BaseWhisperPool ==
    <<<<"W","e"," ","s","h","o","u","l","d"," ","k","e","e","p"," ","c","a","l","m"," ","a","n","d"," ","w","a","t","c","h"," ","r","e","a","c","t","i","o","n","s",".">>,
      <<"L","e","t"," ","u","s"," ","c","o","o","r","d","i","n","a","t","e"," ","o","u","r"," ","v","o","t","e","s"," ","a","n","d"," ","k","e","e","p"," ","a"," ","c","o","n","s","i","s","t","e","n","t"," ","s","t","o","r","y",".">>,
      <<"I"," ","w","i","l","l"," ","f","o","l","l","o","w"," ","t","h","e"," ","f","l","o","w"," ","a","n","d"," ","a","v","o","i","d"," ","d","r","a","w","i","n","g"," ","a","t","t","e","n","t","i","o","n",".">>>>

\* agent.py, Agent._fallback_talk_like (candidates)
BaseTalkPool ==
    <<<<"H","e","l","l","o"," ","e","v","e","r","y","o","n","e",".">>,
      <<"I"," ","w","a","n","t"," ","t","o"," ","h","e","a","r"," ","y","o","u","r"," ","r","e","a","s","o","n","i","n","g",".">>,
      <<"L","e","t"," ","u","s"," ","d","i","s","c","u","s","s"," ","w","h","o"," ","s","e","e","m","s"," ","s","u","s","p","i","c","i","o","u","s",".">>,
      <<"I"," ","a","m"," ","n","o","t"," ","s","u","r","e"," ","y","e","t"," ","b","u","t"," ","I"," ","w","i","l","l"," ","s","h","a","r","e"," ","m","y"," ","t","h","o","u","g","h","t","s"," ","s","o","o","n",".">>>>

\* werewolf.py, Werewolf._fallback_talk_like (candidates)
WerewolfWhisperPool ==
    <<<<"L","e","t"," ","u","s"," ","t","a","r","g","e","t"," ","s","o","m","e","o","n","e"," ","i","n","f","l","u","e","n","t","i","a","l"," ","t","o","n","i","g","h","t",".">>,
      <<"W","e"," ","s","h","o","u","l","d"," ","a","v","o","i","d"," ","t","h","e"," ","o","b","v","i","o","u","s"," ","t","a","r","g","e","t","s",".">>,
      <<"I"," ","w","i","l","l"," ","f","o","l","l","o","w"," ","y","o","u","r"," ","l","e","a","d"," ","o","n"," ","t","h","e"," ","a","t","t","a","c","k",".">>,
      <<"S","t","a","y"," ","c","a","l","m"," ","a","n","d"," ","b","l","e","n","d"," ","i","n"," ","t","o","m","o","r","r","o","w",".">>,
      <<"T","h","e"," ","S","e","e","r"," ","i","s"," ","d","a","n","g","e","r","o","u","s","."," ","W","e"," ","s","h","o","u","l","d"," ","c","o","n","s","i","d","e","r"," ","a","t","t","a","c","k","i","n","g"," ","t","h","e","m",".">>,
      <<"W","h","o"," ","d","o"," ","y","o","u"," ","t","h","i","n","k"," ","i","s"," ","t","h","e"," ","B","o","d","y","g","u","a","r","d","?">>,
      <<"L","e","t"," ","u","s"," ","s","p","l","i","t"," ","o","u","r"," ","v","o","t","e","s"," ","t","o"," ","a","v","o","i","d"," ","s","u","s","p","i","c","i","o","n",".">>,
      <<"I"," ","w","i","l","l"," ","a","c","t"," ","s","u","s","p","i","c","i","o","u","s"," ","t","o"," ","d","r","a","w"," ","a","t","t","e","n","t","i","o","n"," ","a","w","a","y"," ","f","r","o","m"," ","y","o","u",".">>>>

\* werewolf.py, Werewolf._fallback_talk_like (day0_candidates)
WerewolfDay0Pool ==
    <<<<"H","e","l","l","o"," ","e","v","e","r","y","o","n","e","."," ","I"," ","h","o","p","e"," ","w","e"," ","c","a","n"," ","w","o","r","k"," ","t","o","g","e","t","h","e","r",".">>,
      <<"N","i","c","e"," ","t","o"," ","m","e","e","t"," ","y","o","u"," ","a","l","l","."," ","L","e","t"," ","u","s"," ","f","i","n","d"," ","t","h","e"," ","w","o","l","v","e","s",".">>,
      <<"I"," ","a","m"," ","l","o","o","k","i","n","g"," ","f","o","r","w","a","r","d"," ","t","o"," ","h","e","a","r","i","n","g"," ","e","v","e","r","y","o","n","e","'","s"," ","t","h","o","u","g","h","t","s",".">>,
      <<"G","r","e","e","t","i","n","g","s","."," ","I"," ","w","a","n","t"," ","t","o"," ","h","e","l","p"," ","t","h","e"," ","v","i","l","l","a","g","e"," ","w","i","n",".">>>>

\* werewolf.py, Werewolf._fallback_talk_like (day1_candidates)
WerewolfDay1Pool ==
    <<<<"I"," ","f","i","n","d"," ","t","h","e"," ","q","u","i","e","t"," ","o","n","e","s"," ","m","o","s","t"," ","s","u","s","p","i","c","i","o","u","s",".">>,
      <<"W","e"," ","s","h","o","u","l","d"," ","v","o","t","e"," ","c","a","r","e","f","u","l","l","y"," ","t","o","d","a","y",".">>,
      <<"D","o","e","s"," ","a","n","y","o","n","e"," ","h","a","v","e"," ","s","o","l","i","d"," ","i","n","f","o","r","m","a","t","i","o","n","?">>,
      <<"S","o","m","e","t","h","i","n","g"," ","f","e","e","l","s"," ","o","f","f"," ","a","b","o","u","t"," ","t","h","i","s"," ","s","i","t","u","a","t","i","o","n",".">>,
      <<"I"," ","a","m"," ","n","o","t"," ","f","u","l","l","y"," ","c","o","n","v","i","n","c","e","d"," ","b","y"," ","t","h","a","t"," ","c","l","a","i","m",".">>,
      <<"W","e"," ","n","e","e","d"," ","t","o"," ","t","h","i","n","k"," ","a","b","o","u","t"," ","w","h","o"," ","b","e","n","e","f","i","t","s"," ","f","r","o","m"," ","t","h","i","s",".">>,
      <<"T","h","a","t"," ","r","e","a","s","o","n","i","n","g"," ","d","o","e","s"," ","n","o","t"," ","a","d","d"," ","u","p"," ","t","o"," ","m","e",".">>,
      <<"I"," ","w","a","n","t"," ","t","o"," ","h","e","a","r"," ","m","o","r","e"," ","b","e","f","o","r","e"," ","I"," ","d","e","c","i","d","e",".">>,
      <<"T","h","e"," ","r","e","a","l"," ","w","o","l","f"," ","i","s"," ","p","r","o","b","a","b","l","y"," ","h","i","d","i","n","g"," ","i","n"," ","p","l","a","i","n"," ","s","i","g","h","t",".">>,
      <<"W","e"," ","s","h","o","u","l","d"," ","f","o","c","u","s"," ","o","n"," ","f","i","n","d","i","n","g"," ","t","h","e"," ","w","e","r","e","w","o","l","f",".">>,
      <<"I"," ","h","a","v","e"," ","b","e","e","n"," ","o","b","s","e","r","v","i","n","g"," ","e","v","e","r","y","o","n","e"," ","c","l","o","s","e","l","y",".">>,
      <<"L","e","t"," ","u","s"," ","t","h","i","n","k"," ","a","b","o","u","t"," ","w","h","o"," ","h","a","s"," ","b","e","e","n"," ","a","c","t","i","n","g"," ","s","t","r","a","n","g","e",".">>>>

\* possessed.py, Possessed._fallback_talk_like (day0_candidates)
PossessedDay0Pool ==
    <<<<"H","e","l","l","o"," ","e","v","e","r","y","o","n","e","."," ","I"," ","l","o","o","k"," ","f","o","r","w","a","r","d"," ","t","o"," ","f","i","n","d","i","n","g"," ","t","h","e"," ","t","r","u","t","h",".">>,
      <<"N","i","c","e"," ","t","o"," ","m","e","e","t"," ","y","o","u"," ","a","l","l","."," ","I"," ","h","a","v","e"," ","a"," ","k","e","e","n"," ","s","e","n","s","e"," ","f","o","r"," ","d","a","n","g","e","r",".">>,
      <<"G","r","e","e","t","i","n","g","s","."," ","I"," ","w","i","l","l"," ","b","e"," ","w","a","t","c","h","i","n","g"," ","e","v","e","r","y","o","n","e"," ","c","a","r","e","f","u","l","l","y",".">>,
      <<"H","e","l","l","o","."," ","S","o","m","e","t","h","i","n","g"," ","t","e","l","l","s"," ","m","e"," ","t","h","i","s"," ","w","i","l","l"," ","b","e"," ","i","n","t","e","r","e","s","t","i","n","g",".">>>>

\* possessed.py, Possessed._fallback_talk_like (day1_candidates)
PossessedDay1Pool ==
    <<<<"I"," ","h","a","v","e"," ","a"," ","b","a","d"," ","f","e","e","l","i","n","g"," ","a","b","o","u","t"," ","s","o","m","e","o","n","e"," ","h","e","r","e",".">>,
      <<"I"," ","s","e","n","s","e","d"," ","s","o","m","e","t","h","i","n","g"," ","s","u","s","p","i","c","i","o","u","s"," ","l","a","s","t"," ","n","i","g","h","t",".">>,
      <<"I"," ","h","a","v","e"," ","i","n","f","o","r","m","a","t","i","o","n"," ","t","h","a","t"," ","m","i","g","h","t"," ","c","h","a","n","g","e"," ","t","h","i","n","g","s",".">>,
      <<"I"," ","n","o","t","i","c","e","d"," ","s","o","m","e","t","h","i","n","g"," ","i","m","p","o","r","t","a","n","t"," ","d","u","r","i","n","g"," ","t","h","e"," ","n","i","g","h","t",".">>,
      <<"T","h","e","r","e"," ","i","s"," ","s","o","m","e","t","h","i","n","g"," ","I"," ","n","e","e","d"," ","t","o"," ","s","h","a","r","e"," ","w","i","t","h"," ","e","v","e","r","y","o","n","e",".">>,
      <<"S","o","m","e","t","h","i","n","g"," ","d","o","e","s"," ","n","o","t"," ","a","d","d"," ","u","p"," ","w","i","t","h"," ","t","h","e"," ","c","l","a","i","m","s",".">>,
      <<"W","e"," ","m","i","g","h","t"," ","b","e"," ","m","a","k","i","n","g"," ","a"," ","m","i","s","t","a","k","e"," ","w","i","t","h"," ","o","u","r"," ","s","u","s","p","i","c","i","o","n","s",".">>,
      <<"I"," ","t","h","i","n","k"," ","w","e"," ","s","h","o","u","l","d"," ","r","e","c","o","n","s","i","d","e","r"," ","w","h","o"," ","w","e"," ","t","r","u","s","t",".">>,
      <<"T","h","e"," ","r","e","a","l"," ","t","h","r","e","a","t"," ","m","i","g","h","t"," ","b","e"," ","h","i","d","i","n","g"," ","i","n"," ","p","l","a","i","n"," ","s","i","g","h","t",".">>,
      <<"I"," ","a","m"," ","n","o","t"," ","s","u","r","e"," ","t","h","e"," ","S","e","e","r"," ","i","s"," ","t","e","l","l","i","n","g"," ","t","h","e"," ","t","r","u","t","h",".">>,
      <<"T","h","e"," ","m","o","s","t"," ","t","r","u","s","t","e","d"," ","p","e","r","s","o","n"," ","c","o","u","l","d"," ","b","e"," ","t","h","e"," ","w","o","l","f",".">>,
      <<"W","e"," ","s","h","o","u","l","d"," ","q","u","e","s","t","i","o","n"," ","t","h","o","s","e"," ","w","h","o"," ","s","e","e","m"," ","t","o","o"," ","h","e","l","p","f","u","l",".">>,
      <<"T","h","e"," ","S","e","e","r"," ","m","i","g","h","t"," ","b","e"," ","l","y","i","n","g"," ","t","o"," ","p","r","o","t","e","c","t"," ","s","o","m","e","o","n","e",".">>,
      <<"I"," ","d","o","u","b","t"," ","t","h","e"," ","d","i","v","i","n","a","t","i","o","n"," ","r","e","s","u","l","t","s"," ","w","e"," ","h","e","a","r","d",".">>>>

\* random.choice(pool): any element
Choices(pool) == {pool[i] : i \in 1..Len(pool)}

\* Agent._fallback_talk_like: the outcomes of one call
BaseFallbackTalkLike(action_type) ==
    IF action_type = "whisper"
    THEN {Return(c) : c \in Choices(BaseWhisperPool)}
    ELSE {Return(c) : c \in Choices(BaseTalkPool)}

\* The part of Werewolf._fallback_talk_like and Possessed._fallback_talk_like
\* that filters the day's pool against self.recent_fallback_talks.  No code
\* assigns that attribute (nor self._max_recent_talks) before it is read, so
\* the read raises AttributeError.
BufferedFallback(pool) == {Raise("AttributeError")}

WerewolfFallbackTalkLike(action_type, d) ==
    IF action_type = "whisper"
    THEN {Return(c) : c \in Choices(WerewolfWhisperPool)}
    ELSE BufferedFallback(IF d = 0 THEN WerewolfDay0Pool ELSE WerewolfDay1Pool)

PossessedFallbackTalkLike(action_type, d) ==
    BufferedFallback(IF d = 0 THEN PossessedDay0Pool ELSE PossessedDay1Pool)

\* self._fallback_talk_like(action_type), dispatched on the agent's class
_fallback_talk_like(r, action_type, d) ==
    CASE r = "WEREWOLF"  -> WerewolfFallbackTalkLike(action_type, d)
      [] r = "POSSESSED" -> PossessedFallbackTalkLike(action_type, d)
      [] OTHER           -> BaseFallbackTalkLike(action_type)

(***************************************************************************)
(* Agent._sanitize_free_text                                               *)
(***************************************************************************)
UpperSeq == <<"A","B","C","D","E","F","G","H","I","J","K","L","M",
              "N","O","P","Q","R","S","T","U","V","W","X","Y","Z">>

LowerSeq == <<"a","b","c","d","e","f","g","h","i","j","k","l","m",
              "n","o","p","q","r","s","t","u","v","w","x","y","z">>

\* case folding of re.IGNORECASE on the ASCII letters
LowerChar(c) ==
    IF c \in AsciiUpper THEN LowerSeq[CHOOSE i \in 1..26 : UpperSeq[i] = c] ELSE c

LowerStr(s) == [i \in 1..Len(s) |-> LowerChar(s[i])]

\* index of the first character at or after i that is not whitespace
SkipSpaces(s, i) ==
    LET stops == {j \in i..Len(s) : ~IsSpace(s[j])}
    IN  IF stops = {} THEN Len(s) + 1 ELSE CHOOSE j \in stops : \A k \in stops : j <= k

\* length of the match of ^(talk|whisper)\s*[:\-]\s* at the start of s, 0 if none
PrefixMatchLen(s) ==
    LET words == {w \in {<<"t","a","l","k">>, <<"w","h","i","s","p","e","r">>} :
                     StartsWith(LowerStr(s), w)}
    IN  IF words = {} THEN 0
        ELSE LET w == CHOOSE x \in words : TRUE
                 j == SkipSpaces(s, Len(w) + 1)
             IN  IF j <= Len(s) /\ s[j] \in {":", "-"}
                 THEN SkipSpaces(s, j + 1) - 1
                 ELSE 0

\* re.sub(r"^(talk|whisper)\s*[:\-]\s*", "", s, flags=re.IGNORECASE)
StripPrefix(s) == SubSeq(s, PrefixMatchLen(s) + 1, Len(s))

\* mutant: only the ASCII comma is removed
RemoveCommas_AsciiOnly(s) == RemoveChar(s, ",")

\* the three replace calls that remove the commas
RemoveCommas(s) == RemoveChar(RemoveChar(RemoveChar(s, ","), "U+FF0C"), "U+3001")

\* `cleaned` as it stands before the control-token test
SanitizeCleaned(text) ==
    LET c1 == Strip(ReplaceChar(ReplaceChar(text, "\r", " "), "\n", " "))
        c2 == StripSet(c1, {"\"", "'"})
        c3 == Strip(CollapseSpaces(c2))
    IN  RemoveCommas(StripPrefix(c3))

RES_SKIP == <<"S","k","i","p">>

RES_OVER == <<"O","v","e","r">>

ProtocolKeywords ==
    {<<"V","O","T","E">>, <<"D","I","V","I","N","E">>, <<"G","U","A","R","D">>,
     <<"A","T","T","A","C","K">>, <<"C","O","M","I","N","G","O","U","T">>,
     <<"E","S","T","I","M","A","T","E">>, <<"A","G","R","E","E">>,
     <<"D","I","S","A","G","R","E","E">>}

\* re.search(r"\b(VOTE|...|DISAGREE)\b", s): a keyword with no word
\* character next to it on either side
HasProtocolKeyword(s) ==
    \E kw \in ProtocolKeywords : \E i \in 1..Len(s) :
        /\ OccursAt(kw, s, i)
        /\ (i = 1 \/ ~IsWordChar(s[i - 1]))
        /\ (i + Len(kw) > Len(s) \/ ~IsWordChar(s[i + Len(kw)]))

RECURSIVE RemoveSub(_, _)
\* s.replace(sub, "") for a non-empty sub: non-overlapping, left to right
RemoveSub(s, sub) ==
    IF s = <<>> THEN <<>>
    ELSE IF OccursAt(sub, s, 1) THEN RemoveSub(SubSeq(s, Len(sub) + 1, Len(s)), sub)
         ELSE <<s[1]>> \o RemoveSub(Tail(s), sub)

RECURSIVE MaskNames(_, _)
\* the loop that removes "@name" and then name, for each key of status_map
MaskNames(s, names) ==
    IF names = <<>> THEN s
    ELSE MaskNames(RemoveSub(RemoveSub(s, <<"@">> \o names[1]), names[1]), Tail(names))

\* [\u3000-\u303f\u3040-\u30ff\u3400-\u9fff] on the model's characters: the
\* ideographic comma, the katakana and the hiragana are in the ranges, the
\* fullwidth comma (U+FF0C) is not
IsJapaneseChar(c) == c \in {"U+3001", "U+30DF", "U+30CA", "U+30C8", "U+3042"}

HasJapanese(s) == \E i \in 1..Len(s) : IsJapaneseChar(s[i])

\* the outcomes of return fallback.strip() after self._fallback_talk_like(...)
FallbackStripped(r, action_type, d) ==
    {IF o.kind = "return" THEN Return(Strip(o.v)) ELSE o :
        o \in _fallback_talk_like(r, action_type, d)}

\* the outcomes of one call of _sanitize_free_text on an agent
_sanitize_free_text(r, d, inf, text, action_type) ==
    LET cleaned == SanitizeCleaned(text)
    IN  IF cleaned \in {RES_SKIP, RES_OVER} THEN {Return(cleaned)}
        ELSE IF HasProtocolKeyword(cleaned) THEN FallbackStripped(r, action_type, d)
        ELSE IF inf.present /\ HasJapanese(MaskNames(cleaned, Keys(inf.status_map)))
             THEN FallbackStripped(r, action_type, d)
        ELSE {Return(cleaned)}

(***************************************************************************)
(* Inputs of the validator: texts are concatenations of a few pieces       *)
(***************************************************************************)
\* the largest number of pieces in a generated text
MaxPieces == 3

ExtractPieces ==
    {Bob, Mina, Minato, KanaMina, KanaMinato,
     <<" ">>, <<"@">>, <<"x">>, <<"\"">>, <<"\n">>}

\* the texts of the end-to-end scenarios: "I choose Bob." in quotes, @Alice
ScenarioChooseBob == <<"\"", "I", " ", "c", "h", "o", "o", "s", "e", " ", "B", "o", "b", ".", "\"">>

ScenarioAtAlice == <<"@", "A", "l", "i", "c", "e">>

RECURSIVE PieceSeqs(_, _)
PieceSeqs(P, n) ==
    IF n = 0 THEN {<<>>}
    ELSE LET shorter == PieceSeqs(P, n - 1)
         IN  shorter \cup {Append(q, p) : q \in {r \in shorter : Len(r) = n - 1}, p \in P}

TextsOf(P) == {Concat(q) : q \in PieceSeqs(P, MaxPieces)}

\* texts around the bracket-decorated identifier
BracketTexts ==
    {Agent01, <<"x">> \o Agent01, Agent01 \o <<"x">>, <<"@">> \o Agent01 \o <<".">>,
     Bob \o <<" ">> \o Agent01 \o <<".">>, <<"U+30DF">> \o Agent01}

ExtractTexts ==
    TextsOf(ExtractPieces) \cup {ScenarioChooseBob, ScenarioAtAlice} \cup BracketTexts

ExtractCandidateLists ==
    {<<>>, <<Alice, Bob>>, <<Bob, Mina>>, <<Mina>>, <<Mina, Minato>>, <<Minato, Mina>>,
     <<Minato>>, <<KanaMina>>, <<KanaMina, KanaMinato>>, <<Bob, KanaMinato>>,
     <<Agent01>>}

(***************************************************************************)
(* Inputs of the sanitizer                                                 *)
(***************************************************************************)
\* the largest value of self.day
MaxDay == 1

Hi == <<"H", "i">>

TextPieces ==
    {Hi, <<" ">>, <<",">>, <<"U+FF0C">>, <<"U+3001">>, <<"\n">>, <<"V","O","T","E">>}

\* texts that exercise the quote, prefix, control-token and name-masking steps
ScenarioTexts ==
    {<<"\"">> \o RES_OVER \o <<"\"">>,
     <<"T","a","l","k"," ",":"," ">> \o RES_SKIP,
     <<"w","h","i","s","p","e","r","-">> \o Hi \o <<",","\r","\n">> \o Hi,
     <<"t","a","l","k">> \o Hi,
     <<"U+3042">>,
     KanaMina,
     <<"@">> \o KanaMina \o <<" ">> \o Hi,
     KanaMina \o <<"U+3042", ",">>,
     KanaMinato \o <<"U+3001">> \o Hi,
     <<"_","V","O","T","E">>,
     <<"I"," ","A","G","R","E","E",".">>}

SanitizeTexts == TextsOf(TextPieces) \cup ScenarioTexts

ALIVE == "ALIVE"

DEAD == "DEAD"

\* the Info of the sanitizer runs: two katakana names and one ASCII name
TextInfo ==
    MkInfo(Bob,
           <<[k |-> KanaMina, v |-> ALIVE], [k |-> Bob, v |-> ALIVE]>>,
           <<[k |-> Bob, v |-> "VILLAGER"]>>)

\* an Info in which one in-game name is the beginning of another one
TextInfoPrefix ==
    MkInfo(Bob,
           <<[k |-> KanaMina, v |-> ALIVE], [k |-> KanaMinato, v |-> ALIVE],
             [k |-> Bob, v |-> ALIVE]>>,
           <<[k |-> Bob, v |-> "VILLAGER"]>>)

\* the variables of the agent while another part of the program is examined
\* the fields Agent.__init__ sets besides the role, the day and the info
AgentFresh ==
    /\ request = "NONE"
    /\ setting = NoSetting
    /\ game_name = None
    /\ talk_history = <<>>
    /\ whisper_history = <<>>
    /\ divine_results = <<>>
    /\ medium_results = <<>>
    /\ executed_agents = <<>>
    /\ attacked_agents = <<>>
    /\ vote_history = <<>>

AgentIdle ==
    /\ role = "VILLAGER"
    /\ day = 0
    /\ info = NoInfo
    /\ AgentFresh

\* the variables of a validator call while another part is examined
ExtractIdle ==
    /\ exResponse = <<>>
    /\ exCandidates = <<>>
    /\ exPc = "idle"
    /\ exResult = None

\* the variables of a sanitizer call while another part is examined
TextIdle ==
    /\ txText = <<>>
    /\ txAction = "talk"
    /\ txPc = "idle"
    /\ txResult = Return(<<>>)

\* the variables of a targeted handler call while another part is examined
TargetIdle ==
    /\ tgHandler = "vote"
    /\ tgLlm = None
    /\ tgPc = "idle"
    /\ tgResult = <<>>

\* the variables of the session loop while another part is examined
LoopIdle ==
    /\ kill_on_timeout = FALSE
    /\ agent_no = 0
    /\ loopPc = "idle"
    /\ packet = NoPacket
    /\ received = 0
    /\ req = None
    /\ sent = <<>>
    /\ calls = <<>>
    /\ timedOut = FALSE
    /\ raised = None

\* the variables of the fallback calls while another part is examined
FallbackIdle ==
    /\ recent_fallback_talks = None
    /\ fbLog = <<>>

\* the variables of the LLM pipeline while another part is examined
LlmIdle ==
    /\ api_key = FALSE
    /\ llm_config = [enabled |-> FALSE, provider |-> "gemini", max_retries |-> None]
    /\ llmPc = "idle"
    /\ llm_enabled = FALSE
    /\ llm_client = None
    /\ llmHandler = "NONE"
    /\ attempt = 0
    /\ last_error = None
    /\ tried = <<>>
    /\ slept = <<>>
    /\ generated = None
    /\ llmResponse = None
    /\ llmResult = None

(***************************************************************************)
(* Specification of the sanitizer: one call on every agent and text        *)
(***************************************************************************)
TextInit ==
    /\ role \in Roles
    /\ day \in 0..MaxDay
    /\ info \in {NoInfo, TextInfo, TextInfoPrefix}
    /\ txText \in SanitizeTexts
    /\ txAction \in {"talk", "whisper"}
    /\ txPc = "call"
    /\ txResult = Return(<<>>)
    /\ AgentFresh
    /\ ExtractIdle
    /\ TargetIdle
    /\ LoopIdle
    /\ FallbackIdle
    /\ LlmIdle

SanitizeCall ==
    /\ txPc = "call"
    /\ txResult' \in _sanitize_free_text(role, day, info, txText, txAction)
    /\ txPc' = "done"
    /\ UNCHANGED <<txText, txAction, agentVars, exVars, tgVars, loopVars, fbVars, llmVars>>

TextNext == SanitizeCall

SpecText == TextInit /\ [][TextNext]_vars

(***************************************************************************)
(* Specification of the validator: one call on every text and list         *)
(***************************************************************************)
ExtractInit ==
    /\ exResponse \in ExtractTexts
    /\ exCandidates \in ExtractCandidateLists
    /\ exPc = "call"
    /\ exResult = None
    /\ AgentIdle
    /\ TextIdle
    /\ TargetIdle
    /\ LoopIdle
    /\ FallbackIdle
    /\ LlmIdle

ExtractCall ==
    /\ exPc = "call"
    /\ exResult' = _extract_candidate_name(exResponse, exCandidates)
    /\ exPc' = "done"
    /\ UNCHANGED <<exResponse, exCandidates, agentVars, txVars, tgVars, loopVars, fbVars,
                   llmVars>>

ExtractNext == ExtractCall

SpecExtract == ExtractInit /\ [][ExtractNext]_vars

(***************************************************************************)
(* Specification of the fallback utterances: a sequence of calls of        *)
(* _fallback_talk_like on one agent                                        *)
(***************************************************************************)
\* the largest number of calls in a sequence
MaxCalls == 3

\* the selection of Werewolf._fallback_talk_like and of
\* Possessed._fallback_talk_like out of the day's pool, on the value of the
\* attribute recent_fallback_talks (None: never assigned): the outcome and
\* the attribute after the call.  The first read of the attribute raises
\* when it is unassigned; were it assigned, the sentence would be appended
\* and the read of self._max_recent_talks, which no code assigns, would raise.
BufferedSelect(pool, recent) ==
    IF ~recent.some
    THEN {[out |-> Raise("AttributeError"), recent |-> recent]}
    ELSE LET available == SelectSeq(pool, LAMBDA c : ~InList(c, recent.v))
             kept == IF available = <<>> THEN <<>> ELSE recent.v
             from == IF available = <<>> THEN pool ELSE available
         IN  {[out |-> Raise("AttributeError"), recent |-> Some(Append(kept, selected))] :
                 selected \in Choices(from)}

\* one call of self._fallback_talk_like(action_type) on the agent's class
FallbackSelect(r, action_type, d, recent) ==
    IF r = "WEREWOLF" /\ action_type # "whisper"
    THEN BufferedSelect(IF d = 0 THEN WerewolfDay0Pool ELSE WerewolfDay1Pool, recent)
    ELSE IF r = "POSSESSED"
    THEN BufferedSelect(IF d = 0 THEN PossessedDay0Pool ELSE PossessedDay1Pool, recent)
    ELSE {[out |-> o, recent |-> recent] : o \in _fallback_talk_like(r, action_type, d)}

FallbackInit ==
    /\ role \in Roles
    /\ day \in 0..MaxDay
    /\ info = NoInfo
    /\ AgentFresh
    /\ recent_fallback_talks = None
    /\ fbLog = <<>>
    /\ ExtractIdle
    /\ TextIdle
    /\ TargetIdle
    /\ LoopIdle
    /\ LlmIdle

FallbackCall ==
    /\ Len(fbLog) < MaxCalls
    /\ \E action_type \in {"talk", "whisper"} :
        \E o \in FallbackSelect(role, action_type, day, recent_fallback_talks) :
            /\ fbLog' = Append(fbLog, [action_type |-> action_type, out |-> o.out])
            /\ recent_fallback_talks' = o.recent
    /\ UNCHANGED <<agentVars, exVars, txVars, tgVars, loopVars, llmVars>>

FallbackNext == FallbackCall

SpecFallback == FallbackInit /\ [][FallbackNext]_vars

(***************************************************************************)
(* Views of the agent state                                                *)
(***************************************************************************)
\* the connection name handed to the agent by connect: team name and index
agent_name == <<"k", "a", "n", "o", "l", "a", "b", "1">>

\* Agent.get_my_game_name
get_my_game_name(inf, gname) ==
    IF inf.present /\ inf.agent # <<>> THEN inf.agent
    ELSE IF gname.some /\ gname.v # <<>> THEN gname.v
    ELSE agent_name

\* [c for c in lst if c != x]
Without(lst, x) == SelectSeq(lst, LAMBDA c : c # x)

\* Agent.get_alive_agents
get_alive_agents(inf) ==
    IF ~inf.present THEN <<>>
    ELSE Keys(SelectSeq(inf.status_map, LAMBDA e : e.v = ALIVE))

\* Agent._get_vote_candidates
_get_vote_candidates(inf, gname, set) ==
    LET candidates == get_alive_agents(inf)
        me == get_my_game_name(inf, gname)
    IN  IF ~set.present THEN Without(candidates, me)
        ELSE IF set.allow_self_vote = FALSE THEN Without(candidates, me)
        ELSE candidates

\* Agent._get_divine_candidates
_get_divine_candidates(inf, gname) ==
    Without(get_alive_agents(inf), get_my_game_name(inf, gname))

\* Agent._get_guard_candidates
_get_guard_candidates(inf, gname) ==
    Without(get_alive_agents(inf), get_my_game_name(inf, gname))

\* the names whose role_map entry is WEREWOLF, in the order of the map
WolvesOf(inf) ==
    IF inf.present THEN Keys(SelectSeq(inf.role_map, LAMBDA e : e.v = "WEREWOLF"))
    ELSE <<>>

\* Agent._get_attack_candidates
_get_attack_candidates(inf, gname) ==
    LET alive == get_alive_agents(inf)
        me == get_my_game_name(inf, gname)
        wolves == WolvesOf(inf)
    IN  SelectSeq(alive, LAMBDA a : a # me /\ ~InList(a, wolves))

\* mutant: no teammate is known
_get_werewolf_teammates_None(inf, gname) == <<>>

\* Werewolf._get_werewolf_teammates
_get_werewolf_teammates(inf, gname) ==
    Without(WolvesOf(inf), get_my_game_name(inf, gname))

(***************************************************************************)
(* Heuristics over the talk history (a Talk is its agent and its text)     *)
(***************************************************************************)
SetMin(S) == CHOOSE x \in S : \A y \in S : x <= y

SetMax(S) == CHOOSE x \in S : \A y \in S : x >= y

\* n occurs in s at i, ignoring the case of ASCII letters (n is in lower case)
OccursAtI(n, s, i) == OccursAt(n, LowerStr(s), i)

\* seer_keywords, in lower case; each is searched between two \b
SeerKeywords ==
    {<<"i", " ", "a", "m", " ", "t", "h", "e", " ", "s", "e", "e", "r">>,
     <<"i", " ", "a", "m", " ", "s", "e", "e", "r">>,
     <<"s", "e", "e", "r", " ", "h", "e", "r", "e">>,
     <<"i", " ", "d", "i", "v", "i", "n", "e", "d">>,
     <<"m", "y", " ", "d", "i", "v", "i", "n", "a", "t", "i", "o", "n">>,
     <<"d", "i", "v", "i", "n", "a", "t", "i", "o", "n", " ", "r", "e", "s", "u", "l", "t">>}

\* re.search(pattern, text, re.IGNORECASE) for the seer keywords
ClaimsSeer(text) ==
    \E kw \in SeerKeywords : \E i \in 1..Len(text) :
        /\ OccursAtI(kw, text, i)
        /\ (i = 1 \/ ~IsWordChar(text[i - 1]))
        /\ (i + Len(kw) > Len(text) \/ ~IsWordChar(text[i + Len(kw)]))

RECURSIVE SeerClaimersFrom(_, _)
SeerClaimersFrom(talks, found) ==
    IF talks = <<>> THEN found
    ELSE LET talk == Head(talks)
             hit == /\ talk.agent # <<>>
                    /\ talk.text # <<>>
                    /\ ClaimsSeer(talk.text)
                    /\ ~InList(talk.agent, found)
         IN  SeerClaimersFrom(Tail(talks), IF hit THEN Append(found, talk.agent) ELSE found)

\* Werewolf._find_seer_claimers and Possessed._find_seer_claimers (the same text)
_find_seer_claimers(talks) == SeerClaimersFrom(talks, <<>>)

\* the number of word characters of t from position s on: the longest \w+
WordRun(t, s) ==
    LET stop == {j \in s..Len(t) : ~IsWordChar(t[j])}
    IN  IF s > Len(t) THEN 0
        ELSE IF stop = {} THEN Len(t) - s + 1
        ELSE SetMin(stop) - s

\* the last position of the line of t that holds position s ('.' stops at "\n")
LineEnd(t, s) ==
    LET nl == {j \in s..Len(t) : t[j] = "\n"}
    IN  IF nl = {} THEN Len(t) ELSE SetMin(nl) - 1

\* (?:WEREWOLF|werewolf|wolf) at p, and the position of its last character
WolfAt(t, p) == OccursAtI(<<"w", "e", "r", "e", "w", "o", "l", "f">>, t, p) \/ OccursAtI(<<"w", "o", "l", "f">>, t, p)

WolfEnd(t, p) == IF OccursAtI(<<"w", "e", "r", "e", "w", "o", "l", "f">>, t, p) THEN p + 7 ELSE p + 3

NoMatch == [ok |-> FALSE, group |-> <<>>, end |-> 0]

\* (\w+) is (?:a |the )?(?:WEREWOLF|werewolf|wolf) matched at position s
AccusedIsWolf(t, s) ==
    LET K == WordRun(t, s)
        q == s + K + 4
        w == IF OccursAtI(<<"a", " ">>, t, q) /\ WolfAt(t, q + 2) THEN q + 2
             ELSE IF OccursAtI(<<"t", "h", "e", " ">>, t, q) /\ WolfAt(t, q + 4) THEN q + 4
             ELSE q
    IN  IF K >= 1 /\ OccursAtI(<<" ", "i", "s", " ">>, t, s + K) /\ WolfAt(t, w)
        THEN [ok |-> TRUE, group |-> SubSeq(t, s, s + K - 1), end |-> WolfEnd(t, w)]
        ELSE NoMatch

\* divined (\w+).*(?:WEREWOLF|werewolf|wolf) matched at position s: the group
\* is as long as leaves a wolf word later on the line, .* reaches the last one
DivinedWolf(t, s) ==
    LET g == s + 8
        K == WordRun(t, g)
        wolves == {p \in (g + 1)..LineEnd(t, g) : OccursAtI(<<"w", "o", "l", "f">>, t, p)}
        last == SetMax(wolves)
        k == IF K <= last - g THEN K ELSE last - g
    IN  IF OccursAtI(<<"d", "i", "v", "i", "n", "e", "d", " ">>, t, s) /\ K >= 1 /\ wolves # {}
        THEN [ok |-> TRUE, group |-> SubSeq(t, g, g + k - 1), end |-> last + 3]
        ELSE NoMatch

\* is (?:the )?wolf at p
WolfTailAt(t, p) == OccursAtI(<<"i", "s", " ", "w", "o", "l", "f">>, t, p) \/ OccursAtI(<<"i", "s", " ", "t", "h", "e", " ", "w", "o", "l", "f">>, t, p)

\* (\w+).*is (?:the )?wolf matched at position s
SomeoneIsWolf(t, s) ==
    LET K == WordRun(t, s)
        tails == {p \in (s + 1)..LineEnd(t, s) : WolfTailAt(t, p)}
        last == SetMax(tails)
        k == IF K <= last - s THEN K ELSE last - s
    IN  IF K >= 1 /\ tails # {}
        THEN [ok |-> TRUE, group |-> SubSeq(t, s, s + k - 1),
              end |-> IF OccursAtI(<<"i", "s", " ", "w", "o", "l", "f">>, t, last) THEN last + 6 ELSE last + 10]
        ELSE NoMatch

\* the n-th of werewolf_keywords matched at position s
AccusationAt(n, t, s) ==
    IF n = 1 THEN AccusedIsWolf(t, s)
    ELSE IF n = 2 THEN DivinedWolf(t, s)
    ELSE SomeoneIsWolf(t, s)

RECURSIVE FindAll(_, _, _)
\* re.findall(pattern, text, re.IGNORECASE) from position pos on: the groups
\* of the leftmost matches, none overlapping
FindAll(n, t, pos) ==
    LET starts == {s \in pos..Len(t) : AccusationAt(n, t, s).ok}
    IN  IF starts = {} THEN <<>>
        ELSE LET m == AccusationAt(n, t, SetMin(starts))
             IN  <<m.group>> \o FindAll(n, t, m.end + 1)

RECURSIVE AppendValid(_, _, _)
\* the loop over the matches of one pattern
AppendValid(matches, inf, found) ==
    IF matches = <<>> THEN found
    ELSE LET match == Head(matches)
             hit == /\ match # <<>>
                    /\ ~InList(match, found)
                    /\ inf.present
                    /\ InList(match, Keys(inf.status_map))
         IN  AppendValid(Tail(matches), inf, IF hit THEN Append(found, match) ELSE found)

RECURSIVE LikelyWolvesFrom(_, _, _, _)
\* the loops over the talks and, for each talk, over the three patterns
LikelyWolvesFrom(talks, n, inf, found) ==
    IF talks = <<>> THEN found
    ELSE IF n > 3 \/ Head(talks).text = <<>> THEN LikelyWolvesFrom(Tail(talks), 1, inf, found)
    ELSE LikelyWolvesFrom(talks, n + 1, inf,
                          AppendValid(FindAll(n, Head(talks).text, 1), inf, found))

\* Possessed._find_likely_werewolves
_find_likely_werewolves(talks, inf) == LikelyWolvesFrom(talks, 1, inf, <<>>)

(***************************************************************************)
(* Targeted handlers                                                       *)
(***************************************************************************)
\* the elements of a list, as the outcomes of random.choice
Elems(lst) == {lst[i] : i \in 1..Len(lst)}

\* Agent._random_choice: "" for an empty list
_random_choice(candidates) ==
    IF candidates = <<>> THEN {<<>>} ELSE Elems(candidates)

\* Agent._call_llm on a client outcome: None when the LLM is disabled or
\* generate raised an LLMError, else the text generate returned
_call_llm(llm) ==
    IF ~llm.enabled THEN None
    ELSE IF llm.outcome.kind = "raise" THEN None
    ELSE Some(llm.outcome.v)

\* the candidate a handler takes from the response: agent_name when both
\* "if response" and "if agent_name" pass, else None
ValidatedName(response, candidates) ==
    IF response.some /\ response.v # <<>>
    THEN LET agent_name_ == _extract_candidate_name(response.v, candidates)
         IN  IF agent_name_.some /\ agent_name_.v # <<>> THEN agent_name_ ELSE None
    ELSE None

\* self._random_choice(candidates) or self._random_choice(self.get_alive_agents())
GenericFallback(candidates, alive) ==
    {c \in _random_choice(candidates) : c # <<>>}
        \cup (IF <<>> \in _random_choice(candidates) THEN _random_choice(alive) ELSE {})

\* the body shared by Agent.divine, Agent.guard, Agent.vote and Agent.attack
BaseTargeted(candidates, llm, inf) ==
    LET name == ValidatedName(_call_llm(llm), candidates)
    IN  IF name.some THEN {name.v}
        ELSE GenericFallback(candidates, get_alive_agents(inf))

\* a fallback vote that applies the seer-claimer heuristic to the whole pool
\* and removes the teammates only afterwards
Werewolf_fallback_vote_ClaimersFirst(inf, gname, talks) ==
    LET my_name == get_my_game_name(inf, gname)
        candidates == Without(get_alive_agents(inf), my_name)
        teammates == _get_werewolf_teammates(inf, gname)
        safe_candidates == SelectSeq(candidates, LAMBDA c : ~InList(c, teammates))
        seer_targets == SelectSeq(_find_seer_claimers(talks),
                                  LAMBDA c : InList(c, candidates))
    IN  IF candidates = <<>> THEN {my_name}
        ELSE IF seer_targets # <<>> THEN Elems(seer_targets)
        ELSE IF safe_candidates = <<>> THEN Elems(candidates)
        ELSE Elems(safe_candidates)

\* Werewolf._fallback_vote
Werewolf_fallback_vote(inf, gname, talks) ==
    LET my_name == get_my_game_name(inf, gname)
        candidates == Without(get_alive_agents(inf), my_name)
        teammates == _get_werewolf_teammates(inf, gname)
        safe_candidates == SelectSeq(candidates, LAMBDA c : ~InList(c, teammates))
        seer_targets == SelectSeq(_find_seer_claimers(talks),
                                  LAMBDA c : InList(c, safe_candidates))
    IN  IF candidates = <<>> THEN {my_name}
        ELSE IF safe_candidates = <<>> THEN Elems(candidates)
        ELSE IF seer_targets # <<>> THEN Elems(seer_targets)
        ELSE Elems(safe_candidates)

\* the branch of Werewolf._fallback_vote that logs the warning "Werewolf has
\* no non-wolf candidates to vote for": other players are alive and each of
\* them is a teammate
Werewolf_fallback_vote_warning(inf, gname) ==
    LET my_name == get_my_game_name(inf, gname)
        candidates == Without(get_alive_agents(inf), my_name)
        teammates == _get_werewolf_teammates(inf, gname)
        safe_candidates == SelectSeq(candidates, LAMBDA c : ~InList(c, teammates))
    IN  candidates # <<>> /\ safe_candidates = <<>>

\* mutant: the vote returns the validated name without looking at the teammates
WerewolfVote_Unchecked(inf, gname, set, talks, llm) ==
    LET candidates == _get_vote_candidates(inf, gname, set)
        name == ValidatedName(_call_llm(llm), candidates)
    IN  IF name.some THEN {name.v}
        ELSE Werewolf_fallback_vote(inf, gname, talks)

\* Werewolf.vote
WerewolfVote(inf, gname, set, talks, llm) ==
    LET candidates == _get_vote_candidates(inf, gname, set)
        name == ValidatedName(_call_llm(llm), candidates)
    IN  IF name.some /\ ~InList(name.v, _get_werewolf_teammates(inf, gname))
        THEN {name.v}
        ELSE Werewolf_fallback_vote(inf, gname, talks)

\* Possessed._fallback_vote
Possessed_fallback_vote(inf, gname, talks) ==
    LET my_name == get_my_game_name(inf, gname)
        candidates == Without(get_alive_agents(inf), my_name)
        seer_targets == SelectSeq(_find_seer_claimers(talks),
                                  LAMBDA c : InList(c, candidates))
        likely_wolves == _find_likely_werewolves(talks, inf)
        safe_candidates == SelectSeq(candidates, LAMBDA c : ~InList(c, likely_wolves))
    IN  IF candidates = <<>> THEN {my_name}
        ELSE IF seer_targets # <<>> THEN Elems(seer_targets)
        ELSE IF safe_candidates # <<>> THEN Elems(safe_candidates)
        ELSE Elems(candidates)

\* Possessed.vote
PossessedVote(inf, gname, set, talks, llm) ==
    LET candidates == _get_vote_candidates(inf, gname, set)
        name == ValidatedName(_call_llm(llm), candidates)
    IN  IF name.some THEN {name.v}
        ELSE Possessed_fallback_vote(inf, gname, talks)

TargetedHandlers == {"vote", "divine", "guard", "attack"}

\* the candidate list a handler computes for its request
CandidatesFor(handler, inf, gname, set) ==
    IF handler = "vote" THEN _get_vote_candidates(inf, gname, set)
    ELSE IF handler = "divine" THEN _get_divine_candidates(inf, gname)
    ELSE IF handler = "guard" THEN _get_guard_candidates(inf, gname)
    ELSE _get_attack_candidates(inf, gname)

\* the outcomes of the handler of a role class: Werewolf and Possessed
\* override vote, every other method is the one of Agent
TargetedHandler(r, handler, inf, gname, set, talks, llm) ==
    IF handler = "vote" /\ r = "WEREWOLF" THEN WerewolfVote(inf, gname, set, talks, llm)
    ELSE IF handler = "vote" /\ r = "POSSESSED" THEN PossessedVote(inf, gname, set, talks, llm)
    ELSE BaseTargeted(CandidatesFor(handler, inf, gname, set), llm, inf)

(***************************************************************************)
(* Specification of the targeted handlers: one call on every agent state   *)
(***************************************************************************)
\* the players of the runs: the agent is Alice
Players == <<Alice, Bob, Mina>>

\* every status_map over the players
StatusMaps ==
    {[i \in 1..Len(Players) |-> [k |-> Players[i], v |-> st[i]]] :
        st \in [1..Len(Players) -> {ALIVE, DEAD}]}

\* the role maps an agent of role r is sent: none, its own entry, and for a
\* werewolf its own entry with the one of its teammate Bob
RoleMaps(r) ==
    {<<>>, <<[k |-> Alice, v |-> r]>>}
        \cup (IF r = "WEREWOLF"
              THEN {<<[k |-> Alice, v |-> r], [k |-> Bob, v |-> "WEREWOLF"]>>}
              ELSE {})

TargetSettings == {NoSetting, MkSetting(0, FALSE), MkSetting(0, TRUE)}

MkTalk(agent, text) == [agent |-> agent, text |-> text]

TalkHistories ==
    {<<>>,
     <<MkTalk(Bob, <<"I", " ", "a", "m", " ", "t", "h", "e", " ", "S", "e", "e", "r", ".">>)>>,
     <<MkTalk(Mina, <<"B", "o", "b", " ", "i", "s", " ", "a", " ", "w", "e", "r", "e", "w", "o", "l", "f">>)>>,
     <<MkTalk(Alice, <<"s", "e", "e", "r", " ", "h", "e", "r", "e">>), MkTalk(Mina, <<"I", " ", "d", "i", "v", "i", "n", "e", "d", " ", "B", "o", "b", " ", "a", "n", "d", " ", "h", "e", " ", "i", "s", " ", "t", "h", "e", " ", "w", "o", "l", "f">>)>>,
     <<MkTalk(Bob, <<"I", " ", "a", "m", " ", "a", " ", "s", "e", "e", "r", "s", "h", "o", "w">>), MkTalk(Bob, <<"d", "i", "v", "i", "n", "e", "d", " ", "M", "i", "n", "a", " ", "t", "o", "n", "i", "g", "h", "t">> \o <<"\n">> \o <<"B", "o", "b", " ", "i", "s", " ", "W", "O", "L", "F", ".", " ", "M", "i", "n", "a", " ", "i", "s", " ", "t", "h", "e", " ", "W", "o", "l", "f">>)>>,
     <<MkTalk(Mina, <<"M", "y", " ", "d", "i", "v", "i", "n", "a", "t", "i", "o", "n", " ", "r", "e", "s", "u", "l", "t", ":", " ", "B", "o", "b", "w", "o", "l", "f">>), MkTalk(Bob, <<>>), MkTalk(Bob, <<"I", " ", "d", "i", "v", "i", "n", "e", "d", " ", "M", "i", "n", "a", "w", "o", "l", "f">>)>>}

\* what the LLM client does: disabled, generate raises, generate returns a text
LlmOutcomes ==
    {[enabled |-> FALSE, outcome |-> Return(<<>>)],
     [enabled |-> TRUE, outcome |-> Raise("LLMError")]}
        \cup {[enabled |-> TRUE, outcome |-> Return(t)] :
                t \in {<<>>, Alice, Bob, <<"@">> \o Mina, <<"I", " ", "v", "o", "t", "e", " ", "f", "o", "r", " ", "M", "i", "n", "a", ".">>,
                       <<"n", "o", "b", "o", "d", "y">>}}

TargetInit ==
    /\ role \in Roles
    /\ day = 0
    /\ \E sm \in StatusMaps : \E rm \in RoleMaps(role) : info = MkInfo(Alice, sm, rm)
    /\ request = "NONE"
    /\ setting \in TargetSettings
    /\ game_name = Some(Alice)
    /\ talk_history \in TalkHistories
    /\ whisper_history = <<>>
    /\ divine_results = <<>>
    /\ medium_results = <<>>
    /\ executed_agents = <<>>
    /\ attacked_agents = <<>>
    /\ vote_history = <<>>
    /\ tgHandler \in TargetedHandlers
    /\ tgLlm \in LlmOutcomes
    /\ tgPc = "call"
    /\ tgResult = <<>>
    /\ ExtractIdle
    /\ TextIdle
    /\ LoopIdle
    /\ FallbackIdle
    /\ LlmIdle

TargetCall ==
    /\ tgPc = "call"
    /\ tgResult' \in TargetedHandler(role, tgHandler, info, game_name, setting,
                                     talk_history, tgLlm)
    /\ tgPc' = "done"
    /\ UNCHANGED <<tgHandler, tgLlm, agentVars, exVars, txVars, loopVars, fbVars, llmVars>>

TargetNext == TargetCall

SpecTarget == TargetInit /\ [][TargetNext]_vars

(***************************************************************************)
(* The session loop, the timeout wrapper and the handler threads           *)
(***************************************************************************)
\* the largest number of packets the loop receives
MaxRequests == 3

\* mutant: res starts as None
NoResult_None == Return(None)

\* res = Exception("No result"), the value of res before the thread sets it
NoResult == Raise("No result")

\* isinstance(res, Exception)
IsException(res) == res.kind = "raise"

\* timeout_value of the wrapper: the deadline in whole seconds
TimeoutValue(set) == IF set.present THEN set.timeout_action \div 1000 ELSE 0

\* packet.info.role_map.get(packet.info.agent)
RoleOf(inf) ==
    LET hits == SelectSeq(inf.role_map, LAMBDA e : e.k = inf.agent)
    IN  IF hits = <<>> THEN None ELSE Some(hits[1].v)

\* mutant: res is one cell shared by the wrapper calls, not set again at a
\* call: a new call starts with what the call before left in it
NewCall_SharedRes(n, r, request_) ==
    [agent |-> n, role |-> r, request |-> request_, handler |-> "NONE", pc |-> 0,
     state |-> "running", stop |-> FALSE,
     res |-> IF calls = <<>> THEN Raise("No result") ELSE calls[Len(calls)].res,
     late |-> FALSE]

\* the thread of one wrapper call and its res cell: the agent instance it
\* runs on with its role, self.request at the call, the handler action()
\* selected, the next statement, its state, whether stop() was called on it,
\* and whether it wrote the agent state outside its wrapper call
NewCall(n, r, request_) ==
    [agent |-> n, role |-> r, request |-> request_, handler |-> "NONE", pc |-> 0,
     state |-> "running", stop |-> FALSE, res |-> NoResult, late |-> FALSE]

\* the number of statements of a handler that write the agent state
Statements(handler) ==
    IF handler = "INITIALIZE" THEN 6
    ELSE IF handler = "DAILY_INITIALIZE" THEN 5
    ELSE IF handler = "DAILY_FINISH" THEN 1
    ELSE 0

\* what action() returns or raises for a handler: a sentence or a control
\* token for the free-text requests (the buffered fallback of the Werewolf
\* and the Possessed raises), a name or "" for the targeted requests, None
\* for the lifecycle requests
HandlerOutcomes(r, handler) ==
    IF handler = "NAME" THEN {Return(Some(agent_name))}
    ELSE IF handler \in {"TALK", "WHISPER"}
    THEN {Return(Some(RES_OVER)), Return(Some(Hi))}
            \cup (IF r \in {"WEREWOLF", "POSSESSED"} THEN {Raise("AttributeError")} ELSE {})
    ELSE IF handler \in {"VOTE", "DIVINE", "GUARD", "ATTACK"}
    THEN {Return(Some(Bob)), Return(Some(<<>>))}
    ELSE {Return(None)}

(***************************************************************************)
(* Inputs of the session: the packets the server sends                     *)
(***************************************************************************)
AllAlive == [i \in 1..Len(Players) |-> [k |-> Players[i], v |-> ALIVE]]

\* the roles of the agents of the runs
SessionRoles == {"SEER", "WEREWOLF"}

\* the values of setting.timeout.action, in milliseconds
Deadlines == {0, 500, 1000}

TalkOfBob == MkTalk(Bob, Hi)

\* the info of an INITIALIZE packet for an agent of role r
InitInfo(r) == MkInfo(Alice, AllAlive, <<[k |-> Alice, v |-> r]>>)

\* the info of the first day: a divine result, an executed and an attacked agent
DayInfo ==
    [MkInfo(Alice, AllAlive, <<>>) EXCEPT
        !.day = 1, !.divine_result = Some("Bob:HUMAN"),
        !.executed_agent = Some(Bob), !.attacked_agent = Some(Mina)]

\* the info at the end of the first day: a medium result and the vote list
VoteInfo ==
    [MkInfo(Alice, AllAlive, <<>>) EXCEPT
        !.day = 1, !.medium_result = Some("Bob:HUMAN"), !.vote_list = <<"Alice:Bob">>]

Packets ==
    {MkPacket("NAME", NoInfo, NoSetting, <<>>, <<>>),
     MkPacket("INITIALIZE", NoInfo, NoSetting, <<>>, <<>>),
     MkPacket("DAILY_INITIALIZE", DayInfo, NoSetting, <<>>, <<>>),
     MkPacket("DAILY_INITIALIZE", VoteInfo, NoSetting, <<>>, <<>>),
     MkPacket("TALK", NoInfo, NoSetting, <<TalkOfBob>>, <<>>),
     MkPacket("WHISPER", NoInfo, NoSetting, <<>>, <<TalkOfBob>>),
     MkPacket("VOTE", NoInfo, NoSetting, <<>>, <<>>),
     MkPacket("DAILY_FINISH", VoteInfo, NoSetting, <<>>, <<>>),
     MkPacket("FINISH", NoInfo, NoSetting, <<>>, <<>>)}
        \cup {MkPacket("INITIALIZE", InitInfo(r), MkSetting(d, FALSE), <<TalkOfBob>>, <<>>) :
                r \in SessionRoles, d \in Deadlines}

(***************************************************************************)
(* Specification of the session                                            *)
(***************************************************************************)
otherVars == <<exVars, txVars, tgVars, fbVars, llmVars>>

loopRest == <<kill_on_timeout, agent_no, loopPc, packet, received, req, sent, timedOut,
              raised>>

Init ==
    /\ AgentIdle
    /\ kill_on_timeout \in BOOLEAN
    /\ agent_no = 0
    /\ loopPc = "receive"
    /\ packet = NoPacket
    /\ received = 0
    /\ req = None
    /\ sent = <<>>
    /\ calls = <<>>
    /\ timedOut = FALSE
    /\ raised = None
    /\ ExtractIdle
    /\ TextIdle
    /\ TargetIdle
    /\ FallbackIdle
    /\ LlmIdle

\* the thread of the latest wrapper call
Current == Len(calls)

Running(i) == calls[i].state = "running"

\* thread i runs on the agent the loop holds
OnAgent(i) == calls[i].agent = agent_no

\* the loop is inside the wrapper call that started thread i
InWrapper(i) == i = Current /\ loopPc \in {"join", "is_alive", "stop", "exit"}

\* packet = client.receive(); a NAME request is answered at once
Receive ==
    /\ loopPc = "receive"
    /\ received < MaxRequests
    /\ \E p \in Packets :
        /\ packet' = p
        /\ IF p.request = "NAME"
           THEN sent' = Append(sent, agent_name) /\ loopPc' = "receive"
           ELSE sent' = sent /\ loopPc' = "route"
    /\ received' = received + 1
    /\ UNCHANGED <<raised, agentVars, kill_on_timeout, agent_no, req, calls, timedOut, otherVars>>

\* agent = init_agent_from_packet(...) on INITIALIZE
InitAgent ==
    /\ loopPc = "route"
    /\ packet.request = "INITIALIZE"
    /\ IF packet.info.present /\ RoleOf(packet.info).some
       THEN /\ role' = RoleOf(packet.info).v
            /\ day' = 0
            /\ info' = NoInfo
            /\ request' = "NONE"
            /\ setting' = NoSetting
            /\ game_name' = None
            /\ talk_history' = <<>>
            /\ whisper_history' = <<>>
            /\ divine_results' = <<>>
            /\ medium_results' = <<>>
            /\ executed_agents' = <<>>
            /\ attacked_agents' = <<>>
            /\ vote_history' = <<>>
            /\ agent_no' = agent_no + 1
            /\ loopPc' = "set_packet"
            /\ raised' = raised
       ELSE /\ loopPc' = "raised"
            /\ raised' = Some("ValueError")
            /\ UNCHANGED <<agentVars, agent_no>>
    /\ UNCHANGED <<kill_on_timeout, packet, received, req, sent, calls, timedOut, otherVars>>

\* mutant: the loop goes on to set_packet whether or not an agent exists
CheckAgent_NoCheck ==
    /\ loopPc = "route"
    /\ packet.request # "INITIALIZE"
    /\ loopPc' = "set_packet"
    /\ raised' = raised
    /\ UNCHANGED <<agentVars, kill_on_timeout, agent_no, packet, received, req, sent, calls,
                   timedOut, otherVars>>

\* if not agent: raise ValueError, for every other request
CheckAgent ==
    /\ loopPc = "route"
    /\ packet.request # "INITIALIZE"
    /\ loopPc' = IF agent_no = 0 THEN "raised" ELSE "set_packet"
    /\ raised' = IF agent_no = 0 THEN Some("ValueError") ELSE raised
    /\ UNCHANGED <<agentVars, kill_on_timeout, agent_no, packet, received, req, sent, calls,
                   timedOut, otherVars>>

\* mutant: set_packet keeps only the talks and whispers of the last packet
set_packet_Replace ==
    /\ loopPc = "set_packet"
    /\ request' = packet.request
    /\ info' = IF packet.info.present THEN packet.info ELSE info
    /\ game_name' = IF packet.info.present THEN Some(packet.info.agent) ELSE game_name
    /\ setting' = IF packet.setting.present THEN packet.setting ELSE setting
    /\ talk_history' = IF packet.request = "INITIALIZE" THEN <<>> ELSE packet.talk_history
    /\ whisper_history' = IF packet.request = "INITIALIZE" THEN <<>>
                          ELSE packet.whisper_history
    /\ loopPc' = "action"
    /\ UNCHANGED <<raised, role, stateVars, kill_on_timeout, agent_no, packet, received, req, sent,
                   calls, timedOut, otherVars>>

\* agent.set_packet(packet)
set_packet ==
    /\ loopPc = "set_packet"
    /\ request' = packet.request
    /\ info' = IF packet.info.present THEN packet.info ELSE info
    /\ game_name' = IF packet.info.present THEN Some(packet.info.agent) ELSE game_name
    /\ setting' = IF packet.setting.present THEN packet.setting ELSE setting
    /\ talk_history' = IF packet.request = "INITIALIZE" THEN <<>>
                       ELSE talk_history \o packet.talk_history
    /\ whisper_history' = IF packet.request = "INITIALIZE" THEN <<>>
                          ELSE whisper_history \o packet.whisper_history
    /\ loopPc' = "action"
    /\ UNCHANGED <<raised, role, stateVars, kill_on_timeout, agent_no, packet, received, req, sent,
                   calls, timedOut, otherVars>>

\* the wrapper sets res and starts the thread
WrapperStart ==
    /\ loopPc = "action"
    /\ calls' = Append(calls, NewCall(agent_no, role, request))
    /\ timedOut' = FALSE
    /\ loopPc' = "join"
    /\ UNCHANGED <<raised, agentVars, kill_on_timeout, agent_no, packet, received, req, sent, otherVars>>

\* thread.join(timeout=timeout_value) returns: the thread ended or the time is up
JoinTimed ==
    /\ loopPc = "join"
    /\ TimeoutValue(setting) > 0
    /\ loopPc' = "is_alive"
    /\ UNCHANGED <<raised, agentVars, kill_on_timeout, agent_no, packet, received, req, sent, calls,
                   timedOut, otherVars>>

\* thread.join() returns: the thread ended
JoinUnbounded ==
    /\ loopPc = "join"
    /\ TimeoutValue(setting) <= 0
    /\ ~Running(Current)
    /\ loopPc' = "exit"
    /\ UNCHANGED <<raised, agentVars, kill_on_timeout, agent_no, packet, received, req, sent, calls,
                   timedOut, otherVars>>

\* if thread.is_alive(): log the timeout
IsAlive ==
    /\ loopPc = "is_alive"
    /\ IF Running(Current)
       THEN timedOut' = TRUE /\ loopPc' = (IF kill_on_timeout THEN "stop" ELSE "exit")
       ELSE timedOut' = timedOut /\ loopPc' = "exit"
    /\ UNCHANGED <<raised, agentVars, kill_on_timeout, agent_no, packet, received, req, sent, calls,
                   otherVars>>

\* thread.stop(): asks a thread that still runs to end
StopThread ==
    /\ loopPc = "stop"
    /\ calls' = [calls EXCEPT ![Current].stop = Running(Current)]
    /\ loopPc' = "exit"
    /\ UNCHANGED <<raised, agentVars, kill_on_timeout, agent_no, packet, received, req, sent,
                   timedOut, otherVars>>

\* mutant: after a timeout the wrapper returns None instead of raising res
WrapperExit_TimeoutReturnsNone ==
    /\ loopPc = "exit"
    /\ IF timedOut /\ calls[Len(calls)].state = "running"
       THEN req' = None /\ loopPc' = "respond" /\ raised' = raised
       ELSE IF calls[Len(calls)].res.kind = "raise"
       THEN req' = req /\ loopPc' = "raised" /\ raised' = Some(calls[Len(calls)].res.exc)
       ELSE req' = calls[Len(calls)].res.v /\ loopPc' = "respond" /\ raised' = raised
    /\ UNCHANGED <<agentVars, kill_on_timeout, agent_no, packet, received, sent, calls,
                   timedOut, otherVars>>

\* mutant: the wrapper returns None whatever the handler returned
WrapperExit_DropsValue ==
    /\ loopPc = "exit"
    /\ IF calls[Len(calls)].res.kind = "raise"
       THEN req' = req /\ loopPc' = "raised" /\ raised' = Some(calls[Len(calls)].res.exc)
       ELSE req' = None /\ loopPc' = "respond" /\ raised' = raised
    /\ UNCHANGED <<agentVars, kill_on_timeout, agent_no, packet, received, sent, calls,
                   timedOut, otherVars>>

\* if isinstance(res, Exception): raise res, else return res
WrapperExit ==
    /\ loopPc = "exit"
    /\ IF IsException(calls[Current].res)
       THEN req' = req /\ loopPc' = "raised" /\ raised' = Some(calls[Current].res.exc)
       ELSE req' = calls[Current].res.v /\ loopPc' = "respond" /\ raised' = raised
    /\ UNCHANGED <<agentVars, kill_on_timeout, agent_no, packet, received, sent, calls,
                   timedOut, otherVars>>

\* if req: client.send(req); the loop ends after FINISH
Respond ==
    /\ loopPc = "respond"
    /\ sent' = IF req.some /\ req.v # <<>> THEN Append(sent, req.v) ELSE sent
    /\ loopPc' = IF packet.request = "FINISH" THEN "finished" ELSE "receive"
    /\ UNCHANGED <<raised, agentVars, kill_on_timeout, agent_no, packet, received, req, calls,
                   timedOut, otherVars>>

\* thread i goes on to its next statement; a write outside its wrapper call is late
Advance(i, to, wrote) ==
    calls' = [calls EXCEPT ![i].pc = to, ![i].late = @ \/ (wrote /\ ~InWrapper(i))]

\* match self.request, in the thread
HandlerDispatch ==
    \E i \in 1..Len(calls) :
        /\ Running(i)
        /\ calls[i].pc = 0
        /\ calls' = [calls EXCEPT ![i].pc = 1,
                                  ![i].handler = IF OnAgent(i) THEN request ELSE calls[i].request]
        /\ UNCHANGED <<agentVars, loopRest, otherVars>>

\* one assignment of Agent.initialize
InitializeStep ==
    \E i \in 1..Len(calls) :
        /\ Running(i)
        /\ calls[i].handler = "INITIALIZE"
        /\ calls[i].pc \in 1..6
        /\ LET k == IF OnAgent(i) THEN calls[i].pc ELSE 0
           IN  /\ day' = IF k = 1 THEN 0 ELSE day
               /\ divine_results' = IF k = 2 THEN <<>> ELSE divine_results
               /\ medium_results' = IF k = 3 THEN <<>> ELSE medium_results
               /\ executed_agents' = IF k = 4 THEN <<>> ELSE executed_agents
               /\ attacked_agents' = IF k = 5 THEN <<>> ELSE attacked_agents
               /\ vote_history' = IF k = 6 THEN <<>> ELSE vote_history
        /\ Advance(i, calls[i].pc + 1, TRUE)
        /\ UNCHANGED <<role, packetVars, loopRest, otherVars>>

\* one statement of Agent.daily_initialize: the day, then one append for
\* each result the info carries
DailyInitializeStep ==
    \E i \in 1..Len(calls) :
        /\ Running(i)
        /\ calls[i].handler = "DAILY_INITIALIZE"
        /\ calls[i].pc \in 1..5
        /\ LET k == IF OnAgent(i) /\ info.present THEN calls[i].pc ELSE 0
           IN  /\ day' = IF k = 1 THEN info.day ELSE day
               /\ divine_results' = IF k = 2 /\ info.divine_result.some
                                    THEN Append(divine_results, info.divine_result.v)
                                    ELSE divine_results
               /\ medium_results' = IF k = 3 /\ info.medium_result.some
                                    THEN Append(medium_results, info.medium_result.v)
                                    ELSE medium_results
               /\ executed_agents' = IF k = 4 /\ info.executed_agent.some
                                     THEN Append(executed_agents, info.executed_agent.v)
                                     ELSE executed_agents
               /\ attacked_agents' = IF k = 5 /\ info.attacked_agent.some
                                     THEN Append(attacked_agents, info.attacked_agent.v)
                                     ELSE attacked_agents
               /\ vote_history' = vote_history
               /\ Advance(i, IF OnAgent(i) /\ ~info.present THEN 6 ELSE calls[i].pc + 1,
                          stateVars' # stateVars)
        /\ UNCHANGED <<role, packetVars, loopRest, otherVars>>

\* the append of Agent.daily_finish
DailyFinishStep ==
    \E i \in 1..Len(calls) :
        /\ Running(i)
        /\ calls[i].handler = "DAILY_FINISH"
        /\ calls[i].pc = 1
        /\ vote_history' = IF OnAgent(i) /\ info.present /\ info.vote_list # <<>>
                           THEN Append(vote_history, info.vote_list)
                           ELSE vote_history
        /\ Advance(i, 2, vote_history' # vote_history)
        /\ UNCHANGED <<role, day, divine_results, medium_results, executed_agents,
                       attacked_agents, packetVars, loopRest, otherVars>>

\* res = func(*args, **kwargs), or res = e: the thread ends
HandlerReturn ==
    \E i \in 1..Len(calls) :
        /\ Running(i)
        /\ calls[i].pc = Statements(calls[i].handler) + 1
        /\ \E o \in HandlerOutcomes(calls[i].role, calls[i].handler) :
            calls' = [calls EXCEPT ![i].res = o, ![i].state = "done"]
        /\ UNCHANGED <<agentVars, loopRest, otherVars>>

\* a thread stop() was called on ends without setting res
HandlerAbort ==
    \E i \in 1..Len(calls) :
        /\ Running(i)
        /\ calls[i].stop
        /\ calls' = [calls EXCEPT ![i].state = "aborted"]
        /\ UNCHANGED <<agentVars, loopRest, otherVars>>

Next ==
    \/ Receive
    \/ InitAgent
    \/ CheckAgent
    \/ set_packet
    \/ WrapperStart
    \/ JoinTimed
    \/ JoinUnbounded
    \/ IsAlive
    \/ StopThread
    \/ WrapperExit
    \/ Respond
    \/ HandlerDispatch
    \/ InitializeStep
    \/ DailyInitializeStep
    \/ DailyFinishStep
    \/ HandlerReturn
    \/ HandlerAbort

Spec == Init /\ [][Next]_vars

(***************************************************************************)
(* The LLM pipeline: Agent._init_llm_client, GeminiClient, Agent._call_llm *)
(* and the handler that falls back                                         *)
(***************************************************************************)
\* the largest config["llm"]["max_retries"]
MaxRetries == 2

\* llm_config.get("max_retries", 2): the default
DefaultMaxRetries == 2

\* what self.client.models.generate_content does in one attempt: a text, a
\* blank text, no text, TimeoutError, an error whose message holds
\* "timeout", another error
ApiOutcomes ==
    {Return(Bob), Return(<<" ">>), Return(<<>>),
     Raise("TimeoutError"), Raise("timeout"), Raise("ServerError")}

\* GeminiClient._generate_with_timeout on the outcome of the API call
_generate_with_timeout(api) ==
    IF api.kind = "return"
    THEN (IF api.v # <<>> THEN Return(Strip(api.v)) ELSE Raise("LLMAPIError"))
    ELSE IF api.exc = "TimeoutError" THEN Raise("LLMTimeoutError")
    ELSE IF api.exc = "timeout" THEN Raise("LLMTimeoutError")
    ELSE Raise("LLMAPIError")

\* last_error as the except clauses of GeminiClient.generate set it
Classified(exc) ==
    IF exc = "LLMTimeoutError" THEN "LLMTimeoutError"
    ELSE IF exc = "LLMAPIError" THEN "LLMAPIError"
    ELSE "LLMError"

\* mutant: the same delay before every retry
WaitTime_Constant(n) == 1

\* wait_time = 2**attempt
WaitTime(n) == 2 ^ n

\* the handlers that call _call_llm
LlmHandlers == {"talk", "whisper"} \cup TargetedHandlers

\* Agent.talk and Agent.whisper after _call_llm returned resp
TalkLike(r, d, inf, resp, action_type) ==
    LET raws == IF resp.some /\ resp.v # <<>> THEN {Return(resp.v)}
                ELSE _fallback_talk_like(r, action_type, d)
    IN  UNION {IF raw.kind = "raise" THEN {raw}
               ELSE {IF o.kind = "return" /\ o.v = <<>> THEN Return(RES_OVER) ELSE o :
                        o \in _sanitize_free_text(r, d, inf, raw.v, action_type)} :
               raw \in raws}

\* what the client did, as the handlers of the agent see it
LlmOf ==
    [enabled |-> llm_enabled /\ llm_client.some,
     outcome |-> IF generated.some THEN generated.v ELSE Return(<<>>)]

LlmInit ==
    /\ role \in Roles
    /\ day \in 0..MaxDay
    /\ info = InitInfo(role)
    /\ request = "NONE"
    /\ setting = NoSetting
    /\ game_name = Some(Alice)
    /\ talk_history = <<>>
    /\ whisper_history = <<>>
    /\ divine_results = <<>>
    /\ medium_results = <<>>
    /\ executed_agents = <<>>
    /\ attacked_agents = <<>>
    /\ vote_history = <<>>
    /\ api_key \in BOOLEAN
    /\ llm_config \in [enabled : BOOLEAN, provider : {"gemini", "other"},
                        max_retries : {None} \cup {Some(n) : n \in 0..MaxRetries}]
    /\ llmPc = "construct"
    /\ llm_enabled = FALSE
    /\ llm_client = None
    /\ llmHandler = "NONE"
    /\ attempt = 0
    /\ last_error = None
    /\ tried = <<>>
    /\ slept = <<>>
    /\ generated = None
    /\ llmResponse = None
    /\ llmResult = None
    /\ ExtractIdle
    /\ TextIdle
    /\ TargetIdle
    /\ LoopIdle
    /\ FallbackIdle

llmRest == <<agentVars, exVars, txVars, tgVars, loopVars, fbVars, api_key, llm_config>>

\* Agent.__init__ ends with self.llm_enabled = self._init_llm_client(); the
\* LLMError of GeminiClient.__init__ without GOOGLE_API_KEY is caught
_init_llm_client ==
    /\ llmPc = "construct"
    /\ IF llm_config.enabled /\ llm_config.provider = "gemini" /\ api_key
       THEN /\ llm_client' = IF llm_config.max_retries.some THEN llm_config.max_retries
                              ELSE Some(DefaultMaxRetries)
            /\ llm_enabled' = TRUE
       ELSE /\ llm_client' = None
            /\ llm_enabled' = FALSE
    /\ llmPc' = "created"
    /\ UNCHANGED <<llmRest, llmHandler, attempt, last_error, tried, slept, generated,
                   llmResponse, llmResult>>

\* a handler calls self._call_llm: None at once without a client, else
\* self.llm_client.generate(...)
CallLlm ==
    /\ llmPc = "created"
    /\ llmHandler' \in LlmHandlers
    /\ llmPc' = IF llm_enabled /\ llm_client.some THEN "attempt" ELSE "generated"
    /\ UNCHANGED <<llmRest, llm_enabled, llm_client, attempt, last_error, tried, slept,
                   generated, llmResponse, llmResult>>

\* one pass of the for loop of generate: return on success, else set
\* last_error and go to the sleep if attempt < max_retries
Attempt ==
    /\ llmPc = "attempt"
    /\ attempt <= llm_client.v
    /\ \E api \in ApiOutcomes :
        LET o == _generate_with_timeout(api)
        IN  /\ tried' = Append(tried, o)
            /\ IF o.kind = "return"
               THEN /\ generated' = Some(o)
                    /\ llmPc' = "generated"
                    /\ UNCHANGED <<attempt, last_error>>
               ELSE /\ last_error' = Some(Classified(o.exc))
                    /\ generated' = generated
                    /\ IF attempt < llm_client.v
                       THEN llmPc' = "sleep" /\ attempt' = attempt
                       ELSE llmPc' = "attempt" /\ attempt' = attempt + 1
    /\ UNCHANGED <<llmRest, llm_enabled, llm_client, llmHandler, slept, llmResponse,
                   llmResult>>

\* time.sleep(wait_time), then the next pass
Backoff ==
    /\ llmPc = "sleep"
    /\ slept' = Append(slept, WaitTime(attempt))
    /\ attempt' = attempt + 1
    /\ llmPc' = "attempt"
    /\ UNCHANGED <<llmRest, llm_enabled, llm_client, llmHandler, last_error, tried,
                   generated, llmResponse, llmResult>>

\* after the loop: raise last_error
Exhausted ==
    /\ llmPc = "attempt"
    /\ attempt > llm_client.v
    /\ generated' = Some(Raise(IF last_error.some THEN last_error.v ELSE "LLMError"))
    /\ llmPc' = "generated"
    /\ UNCHANGED <<llmRest, llm_enabled, llm_client, llmHandler, attempt, last_error,
                   tried, slept, llmResponse, llmResult>>

\* _call_llm returns the response, or None on LLMError or without a client
CallLlmReturn ==
    /\ llmPc = "generated"
    /\ llmResponse' = _call_llm(LlmOf)
    /\ llmPc' = "handler"
    /\ UNCHANGED <<llmRest, llm_enabled, llm_client, llmHandler, attempt, last_error,
                   tried, slept, generated, llmResult>>

\* the rest of the handler: the validated response or the fallback
HandlerFinish ==
    /\ llmPc = "handler"
    /\ \E o \in (IF llmHandler \in {"talk", "whisper"}
                  THEN TalkLike(role, day, info, llmResponse, llmHandler)
                  ELSE {Return(t) : t \in TargetedHandler(role, llmHandler, info, game_name,
                                                          setting, talk_history, LlmOf)}) :
        llmResult' = Some(o)
    /\ llmPc' = "done"
    /\ UNCHANGED <<llmRest, llm_enabled, llm_client, llmHandler, attempt, last_error,
                   tried, slept, generated, llmResponse>>

LlmNext ==
    \/ _init_llm_client
    \/ CallLlm
    \/ Attempt
    \/ Backoff
    \/ Exhausted
    \/ CallLlmReturn
    \/ HandlerFinish

SpecLlm == LlmInit /\ [][LlmNext]_vars

(***************************************************************************)
(* Claims about the validator                                              *)
(***************************************************************************)
exCleaned == ExtractCleaned(exResponse)

\* C8: extract_target returns None or a string equal to an element of the
\* candidate list, and None when the candidate list is empty.
C8_ResultIsCandidate ==
    exPc = "done" =>
        /\ exResult.some => InList(exResult.v, exCandidates)
        /\ exCandidates = <<>> => exResult = None

\* a candidate is extracted from a longer text that surrounds it
C8_Witness ==
    /\ exPc = "done"
    /\ exCandidates = <<Bob, Mina>>
    /\ exResult = Some(Mina)
    /\ exCleaned # Mina

\* n is a strict substring of m
StrictSubstring(n, m) == Len(n) < Len(m) /\ Contains(n, m)

\* every occurrence of n in t lies within an occurrence of m
OnlyInside(n, m, t) ==
    \A i \in 1..Len(t) :
        OccursAt(n, t, i) =>
            \E j \in 1..i : OccursAt(m, t, j) /\ i + Len(n) <= j + Len(m)

KnownNames == {Alice, Bob, Mina, Minato, KanaMina, KanaMinato}

IsPureAsciiAlnum(n) == \A i \in 1..Len(n) : n[i] \in AsciiAlnum

\* the longer identifier m is selected when it alone is present: it is
\* matched and every other candidate occurs only inside it
LongerSelected ==
    \A i \in 1..Len(exCandidates) :
        LET m == exCandidates[i]
        IN  (/\ \E k \in 1..Len(exCandidates) : StrictSubstring(exCandidates[k], m)
             /\ NameHits(m, exCleaned)
             /\ \A k \in 1..Len(exCandidates) :
                    exCandidates[k] # m => OnlyInside(exCandidates[k], m, exCleaned))
            => exResult = Some(m)

\* the shorter identifier n is not selected when it occurs only inside the
\* longer identifier m, for the pairs (n, m) that Covered admits
ShorterNotSelected(Covered(_, _)) ==
    \A i \in 1..Len(exCandidates) : \A m \in KnownNames :
        LET n == exCandidates[i]
        IN  (/\ StrictSubstring(n, m)
             /\ Covered(n, m)
             /\ Contains(m, exCleaned)
             /\ OnlyInside(n, m, exCleaned))
            => exResult # Some(n)

C10_MatchingOrder ==
    exPc = "done" =>
        /\ exCandidates # <<>> =>
            IF InList(exCleaned, exCandidates)
            THEN exResult = Some(exCleaned)
            ELSE IF exCleaned # <<>> /\ exCleaned[1] = "@"
                    /\ InList(Tail(exCleaned), exCandidates)
                 THEN exResult = Some(Tail(exCleaned))
                 ELSE IF \A i \in 1..Len(exCandidates) : ~NameHits(exCandidates[i], exCleaned)
                      THEN exResult = None
                      ELSE /\ exResult.some
                           /\ InList(exResult.v, exCandidates)
                           /\ NameHits(exResult.v, exCleaned)
                           /\ \A i \in 1..Len(exCandidates) :
                                  Len(exCandidates[i]) > Len(exResult.v)
                                      => ~NameHits(exCandidates[i], exCleaned)
        /\ (exResponse = ScenarioChooseBob /\ exCandidates = <<Alice, Bob>>)
               => exResult = Some(Bob)
        /\ (exResponse = ScenarioAtAlice /\ exCandidates = <<Alice, Bob>>)
               => exResult = Some(Alice)

\* both candidates are matched by rule (c) and the longer one wins
C10_Witness ==
    /\ exPc = "done"
    /\ exCandidates = <<Mina, Minato>>
    /\ exResponse = Mina \o <<" ">> \o Minato
    /\ exResult = Some(Minato)

\* the identifier is made only of letters and digits (str.isalnum)
IsLettersDigits(n) == n # <<>> /\ \A i \in 1..Len(n) : IsAlnumChar(n[i])

\* n occurs in t bounded on both sides by a non-alphanumeric character or
\* the edge of the text
BoundedOccurrence(n, t) ==
    \E i \in 1..Len(t) :
        /\ OccursAt(n, t, i)
        /\ (i = 1 \/ ~IsAlnumChar(t[i - 1]))
        /\ (i + Len(n) > Len(t) \/ ~IsAlnumChar(t[i + Len(n)]))

\* the rule of the substring step as stated: an identifier of letters and
\* digits needs a bounded occurrence, any other identifier a plain one
StatedSubstringRule(n, t) ==
    IF IsLettersDigits(n) THEN BoundedOccurrence(n, t) ELSE Contains(n, t)

\* the call reached the substring step: neither the exact match nor the
\* leading-@ rule applied
InSubstringStep ==
    /\ exPc = "done"
    /\ exCandidates # <<>>
    /\ ~InList(exCleaned, exCandidates)
    /\ ~MentionHit(exCleaned, exCandidates)

\* C26: in the substring step an identifier made only of letters and digits
\* matches only where it is bounded on both sides by a non-alphanumeric
\* character or the edge of the text, and any other identifier, such as the
\* bracket-decorated "Agent[01]", matches by plain substring: the result
\* satisfies that rule, and no candidate satisfies it when nothing is found.
C26_BoundaryRule ==
    InSubstringStep =>
        /\ exResult.some => StatedSubstringRule(exResult.v, exCleaned)
        /\ exResult = None =>
              \A i \in 1..Len(exCandidates) : ~StatedSubstringRule(exCandidates[i], exCleaned)

(***************************************************************************)
(* Claims about the sanitizer                                              *)
(***************************************************************************)
\* C6: for every role, kind, day and raw text, sanitize and the fallback
\* selection it relies on complete without raising and return a sentence.
C6_SanitizeNeverRaises ==
    txPc = "done" => txResult.kind = "return"

CommaAndNewlineChars == {",", "U+FF0C", "U+3001", "\n", "\r"}

\* C7: the output of sanitize contains no comma character and no newline or
\* carriage return, also when it is a fallback sentence or a control token.
C7_NoCommaNoNewline ==
    (txPc = "done" /\ txResult.kind = "return") =>
        \A i \in 1..Len(txResult.v) : txResult.v[i] \notin CommaAndNewlineChars

\* a raw text with a comma and a newline was cleaned to a non-empty output
C7_Witness ==
    /\ txPc = "done"
    /\ txResult.kind = "return"
    /\ txResult.v # <<>>
    /\ \E i \in 1..Len(txText) : txText[i] = "U+FF0C"
    /\ \E i \in 1..Len(txText) : txText[i] = "\n"

txCleaned == SanitizeCleaned(txText)

\* the sentences configured for a role, a kind and a day
ConfiguredFallbacks(r, action_type, d) ==
    IF r = "WEREWOLF"
    THEN (IF action_type = "whisper" THEN Choices(WerewolfWhisperPool)
          ELSE IF d = 0 THEN Choices(WerewolfDay0Pool) ELSE Choices(WerewolfDay1Pool))
    ELSE IF r = "POSSESSED"
    THEN (IF d = 0 THEN Choices(PossessedDay0Pool) ELSE Choices(PossessedDay1Pool))
    ELSE IF action_type = "whisper" THEN Choices(BaseWhisperPool)
    ELSE Choices(BaseTalkPool)

txIsFallback ==
    txResult.kind = "return" /\ txResult.v \in ConfiguredFallbacks(role, txAction, day)

\* C11: if the cleaned talk or whisper text contains a protocol keyword as a
\* token, sanitize returns one of the fallback sentences configured for that
\* kind, never the raw text.
C11_KeywordGivesFallback ==
    (txPc = "done" /\ HasProtocolKeyword(txCleaned)) => txIsFallback

\* the known names, the longest first, so that no name is cut by a shorter one
MaskedLongestFirst(s) ==
    MaskNames(s, SortedByLenDesc(Keys(info.status_map)))

\* C20: for a text that is no control token and holds no protocol keyword,
\* sanitize returns a fallback sentence when characters of Japanese script
\* remain after every known in-game name is masked out, and returns the
\* cleaned text when all such characters belong to known in-game names.
C20_FallbackIffForeignScript ==
    (/\ txPc = "done"
     /\ info.present
     /\ txCleaned \notin {RES_SKIP, RES_OVER}
     /\ ~HasProtocolKeyword(txCleaned)) =>
        IF HasJapanese(MaskedLongestFirst(txCleaned))
        THEN txIsFallback
        ELSE txResult = Return(txCleaned)

(***************************************************************************)
(* Claims about the fallback utterances                                    *)
(***************************************************************************)
\* the calls i < j lie in a window of K consecutive calls
SameWindow(i, j, K) == i < j /\ j - i < K

\* C15: over a sequence of fallback-utterance calls on one agent, of any role
\* and kind, every call returns a sentence, and for a buffer length K >= 2
\* no sentence is returned twice within K consecutive calls unless the pool
\* in use has fewer than K + 1 sentences.
C15_NoRepeatInWindow ==
    /\ \A i \in 1..Len(fbLog) : fbLog[i].out.kind = "return"
    /\ \A K \in 2..MaxCalls : \A i \in 1..Len(fbLog) : \A j \in 1..Len(fbLog) :
        (/\ SameWindow(i, j, K)
         /\ fbLog[i].out.kind = "return"
         /\ fbLog[j].out.kind = "return"
         /\ Cardinality(ConfiguredFallbacks(role, fbLog[j].action_type, day)) >= K + 1)
            => fbLog[i].out.v # fbLog[j].out.v

\* the call reads and updates the anti-repetition buffer: the talk of the
\* Werewolf, the talk and the whisper of the Possessed
UsesBuffer(r, action_type) ==
    \/ r = "WEREWOLF" /\ action_type # "whisper"
    \/ r = "POSSESSED"

\* the last call of the sequence
LastCall == fbLog[Len(fbLog)]

\* C27: after every fallback-utterance call that uses the anti-repetition
\* buffer, the buffer exists and holds no more entries than calls were made,
\* in selection order; its last entry is the sentence the call returned, and
\* that sentence was not in the buffer the selection was made against (the
\* entries before it, none after a reset).
C27_BufferAfterCall ==
    (fbLog # <<>> /\ UsesBuffer(role, LastCall.action_type)) =>
        /\ LastCall.out.kind = "return"
        /\ recent_fallback_talks.some
        /\ recent_fallback_talks.v # <<>>
        /\ Len(recent_fallback_talks.v) <= Len(fbLog)
        /\ recent_fallback_talks.v[Len(recent_fallback_talks.v)] = LastCall.out.v
        /\ \A i \in 1..(Len(recent_fallback_talks.v) - 1) :
               recent_fallback_talks.v[i] # LastCall.out.v

(***************************************************************************)
(* Claims about the LLM pipeline                                           *)
(***************************************************************************)
\* the number of failed attempts so far
FailedAttempts == Cardinality({i \in 1..Len(tried) : tried[i].kind = "raise"})

\* C12: generate makes at most max_retries + 1 attempts; a failed attempt of
\* any kind is followed by a sleep of 2^i (i = 0 after the first failure) only
\* when another attempt remains; the first success is returned at once, with
\* no further attempt or sleep; only after max_retries + 1 failures does
\* generate raise.  With max_retries = 2 and fail, fail, succeed it returns
\* the third text after sleeps of 1 and 2.
C12_RetryAndBackoff ==
    llm_client.some =>
        /\ Len(tried) <= llm_client.v + 1
        /\ \A i \in 1..Len(slept) : slept[i] = 2 ^ (i - 1)
        /\ Len(slept) = IF llmPc = "sleep" THEN FailedAttempts - 1
                        ELSE IF FailedAttempts < llm_client.v THEN FailedAttempts
                        ELSE llm_client.v
        /\ \A i \in 1..Len(tried) :
               tried[i].kind = "return" => (i = Len(tried) /\ generated = Some(tried[i]))
        /\ (generated.some /\ generated.v.kind = "raise") =>
               FailedAttempts = llm_client.v + 1
        /\ (llm_client.v = 2 /\ Len(tried) = 3 /\ tried[3].kind = "return") =>
               (generated = Some(tried[3]) /\ slept = <<1, 2>>)

\* a timeout, then an API error, then a text, with max_retries = 2
C12_Witness ==
    /\ llm_client = Some(2)
    /\ Len(tried) = 3
    /\ tried[1] = Raise("LLMTimeoutError")
    /\ tried[2] = Raise("LLMAPIError")
    /\ generated = Some(Return(Bob))
    /\ slept = <<1, 2>>

\* C13: when all max_retries + 1 attempts fail, generate raises the error
\* classified from the last attempt, _call_llm returns None, and the handler
\* returns a fallback value: nothing is raised out of the handler.
C13_ExhaustionFallsBack ==
    (generated.some /\ generated.v.kind = "raise") =>
        /\ generated.v.exc = tried[Len(tried)].exc
        /\ llmPc \in {"handler", "done"} => llmResponse = None
        /\ llmPc = "done" => llmResult.v.kind = "return"

\* C18: with the LLM enabled and GOOGLE_API_KEY absent, constructing the
\* agent fails: no agent instance is created.
C18_MissingKeyIsFatal ==
    (llm_config.enabled /\ llm_config.provider = "gemini" /\ ~api_key) =>
        llmPc = "construct"

\* _call_llm gave the handler nothing to use: the LLM is disabled, the
\* generation failed, or the response is empty
NoLlmValue == ~llmResponse.some \/ llmResponse.v = <<>>

\* what the fallback engine gives the handler of the call
FallbackValues ==
    IF llmHandler \in {"talk", "whisper"}
    THEN ConfiguredFallbacks(role, llmHandler, day)
    ELSE TargetedHandler(role, llmHandler, info, game_name, setting, talk_history,
                         [enabled |-> FALSE, outcome |-> Return(<<>>)])

\* the values the validation step lets through for the response of the call:
\* the sanitized text, or the candidate name extracted from it
ValidatedValues ==
    IF NoLlmValue THEN {}
    ELSE IF llmHandler \in {"talk", "whisper"}
    THEN {o.v : o \in {x \in _sanitize_free_text(role, day, info, llmResponse.v, llmHandler) :
                          x.kind = "return"}}
    ELSE LET name == ValidatedName(llmResponse,
                                   CandidatesFor(llmHandler, info, game_name, setting))
         IN  IF name.some THEN {name.v} ELSE {}

\* C25: every handler, in every role, after the LLM call returns a value: a
\* fallback-engine value whenever the LLM is disabled, generation failed or
\* the response is empty or gave no valid result, and a value derived from
\* the LLM response only when it passed the validator or sanitizer.
C25_PipelineThenFallback ==
    llmPc = "done" =>
        /\ llmResult.v.kind = "return"
        /\ llmResult.v.v \in FallbackValues \cup ValidatedValues
        /\ ValidatedValues = {} => llmResult.v.v \in FallbackValues

(***************************************************************************)
(* Claims about the targeted handlers                                      *)
(***************************************************************************)
tgCandidates == CandidatesFor(tgHandler, info, game_name, setting)

tgMe == get_my_game_name(info, game_name)

\* C4: for every vote, divine, guard and attack request, every role and every
\* LLM outcome, the returned target is a member of the candidate list
\* computed for the request or the agent's own in-game name.
C4_TargetIsCandidateOrSelf ==
    tgPc = "done" => (InList(tgResult, tgCandidates) \/ tgResult = tgMe)

\* the call ended in the generic fallback: a handler of Agent, and no valid
\* name came out of the LLM response
UsedGenericFallback ==
    /\ tgPc = "done"
    /\ ~(tgHandler = "vote" /\ role \in {"WEREWOLF", "POSSESSED"})
    /\ ~ValidatedName(_call_llm(tgLlm), tgCandidates).some

\* C5: the generic fallback returns a member of the candidate list when that
\* is non-empty, otherwise a member of the alive list when that is non-empty,
\* otherwise the agent's own identity, and never an empty string.
C5_GenericFallbackChain ==
    UsedGenericFallback =>
        /\ tgResult # <<>>
        /\ IF tgCandidates # <<>> THEN InList(tgResult, tgCandidates)
           ELSE IF get_alive_agents(info) # <<>> THEN InList(tgResult, get_alive_agents(info))
           ELSE tgResult = tgMe

\* the known teammates: the other players whose role_map entry is WEREWOLF
tgTeammates ==
    {info.role_map[i].k : i \in {j \in 1..Len(info.role_map) :
        info.role_map[j].v = "WEREWOLF" /\ info.role_map[j].k # tgMe}}

\* a Werewolf vote or attack whose result came from the fallback: the LLM
\* gave no valid name, or for the vote named a teammate
UsedWerewolfFallback ==
    /\ tgPc = "done"
    /\ role = "WEREWOLF"
    /\ tgHandler \in {"vote", "attack"}
    /\ LET name == ValidatedName(_call_llm(tgLlm), tgCandidates)
       IN  ~name.some \/ (tgHandler = "vote" /\ name.v \in tgTeammates)

\* an alive player other than the agent and its teammates exists
NonTeammateAlive ==
    \E c \in Elems(get_alive_agents(info)) : c # tgMe /\ c \notin tgTeammates

\* C14: the vote fallback and the attack fallback of the Werewolf never
\* return a known teammate when an alive non-teammate other than the agent
\* exists.
C14_FallbackSparesTeammates ==
    (UsedWerewolfFallback /\ NonTeammateAlive) => tgResult \notin tgTeammates

\* the fallback voted with the teammate Bob and the villager Mina both alive
C14_Witness ==
    /\ UsedWerewolfFallback
    /\ tgHandler = "vote"
    /\ tgTeammates = {Bob}
    /\ InList(Bob, get_alive_agents(info))
    /\ tgResult = Mina

\* the alive players other than the agent and its teammates that made a seer
\* self-claim in the talk history
EligibleClaimers ==
    {c \in Elems(_find_seer_claimers(talk_history)) :
        /\ InList(c, get_alive_agents(info))
        /\ c # tgMe
        /\ c \notin tgTeammates}

\* a Possessed vote whose result came from the fallback
UsedPossessedFallback ==
    /\ tgPc = "done"
    /\ role = "POSSESSED"
    /\ tgHandler = "vote"
    /\ ~ValidatedName(_call_llm(tgLlm), tgCandidates).some

\* C21: in the role-aware fallback for vote and for attack, whenever an
\* alive, eligible candidate made a seer self-claim in the talk history, the
\* fallback returns one of those claimers.
C21_FallbackPrefersClaimers ==
    ((UsedWerewolfFallback \/ UsedPossessedFallback) /\ EligibleClaimers # {}) =>
        tgResult \in EligibleClaimers

\* the players the accusation patterns identify as probable werewolves
tgLikelyWolves == Elems(_find_likely_werewolves(talk_history, info))

\* C22: the Possessed vote fallback never returns a player identified as a
\* probable werewolf when another alive candidate other than the agent is
\* not so identified.
C22_PossessedSparesWolves ==
    (/\ UsedPossessedFallback
     /\ \E c \in Elems(get_alive_agents(info)) : c # tgMe /\ c \notin tgLikelyWolves) =>
        tgResult \notin tgLikelyWolves

\* a Werewolf vote whose result came from the fallback
UsedWerewolfVoteFallback == UsedWerewolfFallback /\ tgHandler = "vote"

\* the alive players other than the agent
tgOthersAlive == {c \in Elems(get_alive_agents(info)) : c # tgMe}

\* C23: in the Werewolf vote fallback the teammates are removed before the
\* seer-claimer heuristic is applied (a teammate is not returned, claimer or
\* not, while an alive non-teammate exists, and a claimer among the
\* non-teammates is preferred); when every alive player other than the agent
\* is a teammate the warning branch is taken and one of them is returned.
C23_TeammatesRemovedFirst ==
    UsedWerewolfVoteFallback =>
        /\ NonTeammateAlive =>
              /\ tgResult \in tgOthersAlive \ tgTeammates
              /\ EligibleClaimers # {} => tgResult \in EligibleClaimers
              /\ ~Werewolf_fallback_vote_warning(info, game_name)
        /\ (tgOthersAlive # {} /\ ~NonTeammateAlive) =>
              /\ Werewolf_fallback_vote_warning(info, game_name)
              /\ tgResult \in tgOthersAlive

\* the fallback voted for the teammate Bob, the only other player alive
C23_Witness ==
    /\ UsedWerewolfVoteFallback
    /\ tgOthersAlive = {Bob}
    /\ tgTeammates = {Bob}
    /\ tgResult = Bob

\* the name the validator took from the LLM response of the call
tgValidated == ValidatedName(_call_llm(tgLlm), tgCandidates)

\* C28: Werewolf.vote never returns a known teammate when an alive
\* non-teammate other than the agent exists, even when the LLM response names
\* a teammate: such a validated name is rejected and the result is one the
\* strategic fallback vote gives.
C28_VoteRejectsTeammate ==
    (tgPc = "done" /\ role = "WEREWOLF" /\ tgHandler = "vote") =>
        /\ NonTeammateAlive => tgResult \notin tgTeammates
        /\ (tgValidated.some /\ tgValidated.v \in tgTeammates) =>
              tgResult \in Werewolf_fallback_vote(info, game_name, talk_history)

\* the LLM named the alive teammate Bob and the vote went to Mina
C28_Witness ==
    /\ tgPc = "done"
    /\ role = "WEREWOLF"
    /\ tgHandler = "vote"
    /\ tgValidated = Some(Bob)
    /\ tgTeammates = {Bob}
    /\ tgResult = Mina

(***************************************************************************)
(* Claims about the session and the timeout wrapper                        *)
(***************************************************************************)
\* C1: when the handler is still running as the deadline elapses, the wrapper
\* logs the timeout and returns to the game loop: the deadline overrun is
\* never raised to handle_game_session, with kill_on_timeout on or off.
C1_OverrunNotRaised ==
    ~(timedOut /\ loopPc = "raised" /\ calls[Current].res = NoResult)

\* C2: with kill_on_timeout off, a handler that outlives its deadline never
\* runs beside the handler of a later request on the same agent, so none of
\* its late writes interleaves with or is lost against a later handler's.
C2_LateHandlerAlone ==
    kill_on_timeout = FALSE =>
        \A i \in 1..Len(calls) : \A j \in 1..Len(calls) :
            (i < j /\ calls[i].agent = calls[j].agent) => ~Running(i)

\* a handler timed out, wrote the agent state after its wrapper call had
\* ended and then completed in the background
C2_Witness ==
    /\ kill_on_timeout = FALSE
    /\ timedOut
    /\ \E i \in 1..Len(calls) :
        calls[i].late /\ calls[i].state = "done" /\ ~InWrapper(i)

\* C3: at most one handler thread runs on the agent at any moment, and the
\* game loop neither calls set_packet nor starts the next request while a
\* handler thread of the agent is still running.
C3_OneUnitAtATime ==
    /\ Cardinality({i \in 1..Len(calls) : Running(i) /\ OnAgent(i)}) <= 1
    /\ loopPc \in {"set_packet", "action"} =>
           \A i \in 1..Len(calls) : ~(Running(i) /\ OnAgent(i))

\* after a request that completed, a second request timed out and its
\* handler is still running when the wrapper call has ended
C3_Witness ==
    /\ Len(calls) >= 2
    /\ timedOut
    /\ Running(Current)
    /\ ~InWrapper(Current)

\* no entry occurs twice in a history
NoDuplicate(h) == \A i \in 1..Len(h) : \A j \in 1..Len(h) : h[i] = h[j] => i = j

\* C16: folding a snapshot into the agent state is idempotent per day: a
\* repeated DAILY_INITIALIZE or DAILY_FINISH with the same day, results and
\* vote list duplicates no entry of the divine-result, medium-result,
\* executed, attacked and vote histories (every snapshot of the runs is of
\* the same day, so two equal entries are the same day's entry folded twice).
C16_SnapshotFoldedOnce ==
    /\ NoDuplicate(divine_results)
    /\ NoDuplicate(medium_results)
    /\ NoDuplicate(executed_agents)
    /\ NoDuplicate(attacked_agents)
    /\ NoDuplicate(vote_history)

\* the configured action deadline in milliseconds, 0 when unset
DeadlineMs == IF setting.present THEN setting.timeout_action ELSE 0

\* C17: the dispatcher waits for the handler without bound (the timeout of
\* its join is not positive) if and only if the configured deadline is zero
\* or unset; for a positive deadline of d milliseconds the wait ends after at
\* most d milliseconds.
C17_DeadlineBoundsWait ==
    loopPc = "join" =>
        IF DeadlineMs = 0
        THEN TimeoutValue(setting) <= 0
        ELSE 1000 * TimeoutValue(setting) \in 1..DeadlineMs

\* C19: when the handler completed before the deadline elapsed, or the
\* deadline is unbounded, the wrapper returns the value the handler returned
\* or raises the exception the handler raised.
C19_WrapperPropagates ==
    (Len(calls) > 0 /\ ~timedOut) =>
        /\ loopPc = "respond" =>
              /\ calls[Current].state = "done"
              /\ calls[Current].res \in HandlerOutcomes(calls[Current].role, calls[Current].handler)
              /\ calls[Current].res.kind = "return"
              /\ req = calls[Current].res.v
        /\ (loopPc = "raised" /\ raised # Some("ValueError")) =>
              /\ calls[Current].state = "done"
              /\ calls[Current].res \in HandlerOutcomes(calls[Current].role, calls[Current].handler)
              /\ raised = Some(calls[Current].res.exc)
              /\ calls[Current].res # NoResult

\* a vote returned in time under a deadline of one second
C19_Witness ==
    /\ loopPc = "respond"
    /\ ~timedOut
    /\ TimeoutValue(setting) > 0
    /\ calls[Current].handler = "VOTE"
    /\ req = Some(Bob)


\* h2 is h with entries appended: no entry removed, replaced or moved
Grows(h, h2) == Len(h) <= Len(h2) /\ SubSeq(h2, 1, Len(h)) = h

\* the step in which the session loop starts a game: the INITIALIZE request
\* is routed and the agent of the game is created
GameStart == loopPc = "route" /\ packet.request = "INITIALIZE"

\* C24: within one game the talk, whisper, divine-result, medium-result,
\* executed, attacked and vote histories only grow: every step of the loop
\* and of the handlers other than the start of a game leaves each history
\* as it was or with entries appended.
C24_HistoriesOnlyGrow ==
    [][GameStart \/
       (/\ Grows(talk_history, talk_history')
        /\ Grows(whisper_history, whisper_history')
        /\ Grows(divine_results, divine_results')
        /\ Grows(medium_results, medium_results')
        /\ Grows(executed_agents, executed_agents')
        /\ Grows(attacked_agents, attacked_agents')
        /\ Grows(vote_history, vote_history'))]_vars

\* two requests after INITIALIZE were folded: a talk and the results of the
\* day are in the histories
C24_Witness ==
    /\ talk_history # <<>>
    /\ divine_results # <<>>
    /\ executed_agents # <<>>
    /\ loopPc = "receive"


\* C29: the value the dispatcher returns for a request, which the loop then
\* sends, is the one the handler thread of that request's own wrapper call
\* produced: the thread ran on the loop's agent for the request of the
\* packet, has ended, and its result is an outcome of that request's handler;
\* no result of another call is returned.
C29_OwnResultReturned ==
    loopPc = "respond" =>
        /\ calls # <<>>
        /\ calls[Current].agent = agent_no
        /\ calls[Current].request = packet.request
        /\ calls[Current].handler = packet.request
        /\ calls[Current].state = "done"
        /\ calls[Current].res \in HandlerOutcomes(role, packet.request)
        /\ req = calls[Current].res.v

\* the join of a later request timed out, its handler ended before the
\* wrapper read res, and the handler's own value is returned
C29_Witness ==
    /\ loopPc = "respond"
    /\ Len(calls) >= 2
    /\ timedOut
    /\ calls[Current].handler = "VOTE"
    /\ req = Some(Bob)


\* the loop is past the routing of the packet it received
Routed == loopPc \notin {"receive", "route"}

\* C30: no handler runs before a game has been initialized: while no agent
\* exists no wrapper call was made and only the connection name was sent; a
\* NAME request is answered with the connection name; a request other than
\* NAME and INITIALIZE received while no agent exists raises ValueError
\* instead of reaching set_packet; and the info of the agent is set whenever
\* a handler thread of the agent was started.
C30_NoHandlerBeforeInitialize ==
    /\ agent_no = 0 =>
          /\ calls = <<>>
          /\ \A i \in 1..Len(sent) : sent[i] = agent_name
          /\ Routed => (loopPc = "raised" /\ raised = Some("ValueError"))
    /\ (packet.request = "NAME" /\ loopPc = "receive") =>
          (sent # <<>> /\ sent[Len(sent)] = agent_name)
    /\ loopPc \in {"set_packet", "action"} => agent_no > 0
    /\ \A i \in 1..Len(calls) :
          /\ calls[i].agent > 0
          /\ OnAgent(i) => info.present

\* NAME was answered and a VOTE that came before any INITIALIZE raised
C30_Witness ==
    /\ agent_no = 0
    /\ sent = <<agent_name>>
    /\ packet.request = "VOTE"
    /\ loopPc = "raised"
    /\ raised = Some("ValueError")

=============================================================================
